---- MODULE Spec2Model ----
(***************************************************************************)
(* Drusdenx: the write path (WAL, staging segment, flush, background       *)
(* merge, compact), the MVCC controller, the reader pool, the query cache  *)
(* and WAL recovery, as a state machine.                                   *)
(*                                                                         *)
(* Threads: one writer (Database.writer is an RwLock<IndexWriter> taken    *)
(* in write mode, so writer calls are serialised), the background merge    *)
(* threads spawned by flush (they take no lock), and a reading client      *)
(* (get_reader / search take no writer lock).  A writer call or a merge    *)
(* is split at every access to the MVCC controller: the read of            *)
(* current_snapshot(), the fetch_add on current_version and the insert     *)
(* into the versions map are separate steps.                               *)
(***************************************************************************)
EXTENDS Integers, Sequences, FiniteSets, TLC

\* ------------------------------------------------------------------ bounds
MaxDoc == 2          \* document ids are 1..MaxDoc
MaxOps == 4          \* writer calls made by the client (Spec)
MaxCacheOps == 3     \* writer calls made by the client (SpecCache)
MaxRecOps == 3       \* writer calls made by the client (SpecRecover)
MaxRecDoc == 1       \* document ids the client uses in SpecRecover
MaxMerge == 2        \* merge thread records of the model
MaxSearch == 2       \* get_reader / search calls made by the client
MaxTxns == 1         \* transactions begun (SpecGC, SpecTx)
MaxTxOps == 2        \* calls the user block makes on its transaction
MaxTxWrites == 2     \* delete calls made by the client (SpecTx)
MaxWalEntries == 2   \* well-formed entries before the damaged record (SpecWalRead)
MaxWalAppends == 5   \* WAL::append calls on one WAL (SpecWalSync)
MaxCodecLen == 3     \* length of the lists given to the codecs (SpecCodec)
MaxSkipDoc == 9      \* doc ids of the posting list given to find (SpecSkip)
MaxIntersectDoc == 6 \* doc ids of the lists given to intersect (SpecSkip)
MaxSimdLen == 9      \* length of the lists given to SimdOps (SpecSimd)
MaxSimdStart == 9    \* first value of the lists given to SimdOps (SpecSimd)
MaxIndexDoc == 3     \* doc ids added to the index (SpecIndex)
MaxIndexAdds == 4    \* documents added to the index (SpecIndex)
MaxTokens == 5       \* tokens of the document of a phrase query (SpecPhrase)
MaxPhraseLen == 3    \* terms of a phrase (SpecPhrase)
MaxSlop == 2         \* slop of a phrase query (SpecPhrase)
MaxK == 2            \* size of a TopKCollector (SpecCollector)
MaxCollect == 3      \* documents collected (SpecCollector)
MaxScore == 2        \* scores are -MaxScore..MaxScore (SpecCollector)
MaxSearchDoc == 4    \* documents of the reader searched (SpecSearchLimit)
MaxSearchSegs == 3   \* segments of the reader searched (SpecSearchLimit)
MaxMergeOps == 4     \* writer calls next to the merges (SpecMerge)
MaxPoolOps == 4      \* writer calls made by the client (SpecPool)
MaxPoolReads == 3    \* get_reader calls made by the client (SpecPool)
MaxKeyOps == 4       \* writer calls on the wide document ids (SpecKeys)
MergeSlots == 1      \* background merge threads alive at once
RaceMergeSlots == 2  \* the same, in SpecCompactRace
BatchSize == 2       \* Config.writer_batch_size
MaxReaders == 2      \* Config.max_readers
DocRecordBytes == 64 \* size of one framed document record in a .seg file

\* ------------------------------------------------------- program constants
max_versions == 100
SegmentHeaderSize == 24
SmallSegmentBytes == 10 * 1024 * 1024
min_segments_to_merge == 2
max_segments_to_merge == 10
max_segments_per_tier == 10
max_segment_size_mb == 512
\* `doc_id.0 as u32` keeps the low half of the bits of a DocId.  TLC's integers
\* are 32-bit, so both widths are scaled: a key is the id modulo BitmapKeySpace.
BitmapKeySpace == 256

DocIds == 1..MaxDoc
MatchAll == 0
Queries == 0..MaxDoc
IsolationLevels == {"ReadCommitted", "RepeatableRead", "Serializable"}
Limits == {1, 10}

VARIABLES
    segFiles,              \* segments/<id>.seg: finished segment id -> documents
    walFiles,              \* wal/wal_<seq>.log: file sequence -> entries
    open,                  \* the engine is open (the process is alive)
    versions,              \* MVCCController.versions
    current_version,       \* MVCCController.current_version
    active_txns,           \* MVCCController.active_txns
    staging,               \* IndexWriter.segment_writer: the staged documents
    wal_sequence,          \* IndexWriter.wal.sequence
    w,                     \* the writer call in progress
    merges,                \* the background merge threads
    reader_cache,          \* ReaderPool.reader_cache
    segment_reader_cache,  \* ReaderPool.segment_reader_cache
    query_cache,           \* Database.query_cache
    held,                  \* the reader the client holds
    lastSearch,            \* the last Database::search_with_limit call
    second_open,           \* a second Database has the same directory open
    libcall,               \* the last call of a library function: arguments and result
    txn,                   \* MVCCController::begin_transaction in progress
    tx,                    \* the core Transaction of the client
    rec,                   \* Database::recover in progress
    g,                     \* history: acknowledged operations
    budget                 \* calls the client may still make

diskVars == <<segFiles, walFiles>>
mvccVars == <<versions, current_version, active_txns>>
writerVars == <<staging, wal_sequence, w>>
poolVars == <<reader_cache, segment_reader_cache>>
clientVars == <<query_cache, held, lastSearch, libcall, second_open, txn, tx>>
vars == <<segFiles, walFiles, open, versions, current_version, active_txns,
          staging, wal_sequence, w, merges, reader_cache, segment_reader_cache,
          query_cache, held, lastSearch, libcall, second_open, txn, tx, rec, g, budget>>

\* ----------------------------------------------------------------- helpers
SetMax(S) == CHOOSE x \in S : \A y \in S : y <= x
SetMin(S) == CHOOSE x \in S : \A y \in S : x <= y
Range(s) == {s[i] : i \in 1..Len(s)}

RECURSIVE Flatten(_)
Flatten(ss) == IF ss = <<>> THEN <<>> ELSE Head(ss) \o Flatten(Tail(ss))

\* number of occurrences of d in the sequence s
Count(s, d) == Cardinality({i \in 1..Len(s) : s[i] = d})

\* deleted_docs.insert(doc_id.0 as u32) / contains(doc.id.0 as u32)
BitmapKey(d) == d % BitmapKeySpace

\* ---------------------------------------------------------------- segments
\* Segment.metadata.size_bytes of a finished segment
SizeBytes(files, id) == SegmentHeaderSize + Len(files[id]) * DocRecordBytes

\* the documents stored in a list of segments, in file order
DocsOfSegments(files, segs) == Flatten([i \in 1..Len(segs) |-> files[segs[i]]])

RECURSIVE SumDocCount(_, _)
SumDocCount(files, segs) ==
    IF segs = <<>> THEN 0
    ELSE Len(files[Head(segs)]) + SumDocCount(files, Tail(segs))

\* ------------------------------------------------------------ merge policy
\* sort_by_key(size_bytes), a stable sort
RECURSIVE SortBySize(_, _)
SortBySize(files, segs) ==
    IF segs = <<>> THEN <<>>
    ELSE LET least == SetMin({SizeBytes(files, segs[i]) : i \in 1..Len(segs)})
             k == SetMin({i \in 1..Len(segs) : SizeBytes(files, segs[i]) = least})
             rest == [i \in 1..(Len(segs) - 1) |-> IF i < k THEN segs[i] ELSE segs[i + 1]]
         IN <<segs[k]>> \o SortBySize(files, rest)

should_merge(files, segs) ==
    \/ Len(segs) > max_segments_per_tier
    \/ Cardinality({i \in 1..Len(segs) : SizeBytes(files, segs[i]) < SmallSegmentBytes})
           >= min_segments_to_merge

RECURSIVE SelectLoop(_, _, _, _)
SelectLoop(files, sorted, selected, current_size) ==
    LET max_merge_size == max_segment_size_mb * 1024 * 1024
    IN IF sorted = <<>> THEN selected
       ELSE LET size == SizeBytes(files, Head(sorted))
            IN IF size > max_merge_size \div 2
                   THEN SelectLoop(files, Tail(sorted), selected, current_size)
               ELSE IF current_size + size > max_merge_size THEN selected
               ELSE IF Len(selected) + 1 >= max_segments_to_merge
                   THEN Append(selected, Head(sorted))
               ELSE SelectLoop(files, Tail(sorted), Append(selected, Head(sorted)),
                               current_size + size)

select_segments_to_merge(files, segs) ==
    LET selected == SelectLoop(files, SortBySize(files, segs), <<>>, 0)
    IN IF Len(selected) < min_segments_to_merge THEN <<>> ELSE selected

\* --------------------------------------------------------- MVCC controller
DefaultSnapshot ==
    [version |-> 0, segments |-> <<>>, doc_count |-> 0, deleted_docs |-> {}]

NewSnapshot(files, version, segments, deleted_docs) ==
    [version |-> version, segments |-> segments,
     doc_count |-> SumDocCount(files, segments), deleted_docs |-> deleted_docs]

\* versions.retain(|&v, _| v >= min_active || current_len <= min_keep)
gc_old_versions(vs) ==
    IF Cardinality(DOMAIN vs) > max_versions
    THEN LET \* min().unwrap_or(u64::MAX): no version is >= u64::MAX
             ge_min_active(v) == active_txns # {} /\ v >= SetMin(active_txns)
             min_keep == max_versions \div 2
             current_len == Cardinality(DOMAIN vs)
             keep == {v \in DOMAIN vs : ge_min_active(v) \/ current_len <= min_keep}
         IN [v \in keep |-> vs[v]]
    ELSE vs

\* the documented rule: nothing is removed until more than max_versions are
\* retained; then a version is retained when it is at least the smallest
\* version held by an active transaction, or when at most the floor are retained
DocumentedRetention(retained, held_versions) ==
    IF Cardinality(retained) > max_versions
    THEN {v \in retained :
            \/ held_versions # {} /\ v >= SetMin(held_versions)
            \/ Cardinality(retained) <= max_versions \div 2}
    ELSE retained

\* versions.insert(version, snapshot); gc_old_versions(&mut versions)
InsertVersion(vs, snapshot) ==
    gc_old_versions([v \in DOMAIN vs \cup {snapshot.version} |->
                        IF v = snapshot.version THEN snapshot ELSE vs[v]])

CurrentSnapshotOf(vs, cv) ==
    LET snapshot_version == IF cv > 0 THEN cv - 1 ELSE 0
    IN IF snapshot_version \in DOMAIN vs THEN vs[snapshot_version] ELSE DefaultSnapshot

current_snapshot == CurrentSnapshotOf(versions, current_version)

\* the published snapshot with the highest version (none published: the default)
LatestPublishedOf(vs) ==
    IF DOMAIN vs = {} THEN DefaultSnapshot ELSE vs[SetMax(DOMAIN vs)]

LatestPublished == LatestPublishedOf(versions)

\* ------------------------------------------------------------- reader pool
\* DocumentMatcher::matches: query 0 is MatchAll, query d matches document d
Matches(q, d) == q = MatchAll \/ q = d

\* SegmentSearch::search: the matching documents of one segment, in file order
RECURSIVE SegmentSearch(_, _)
SegmentSearch(docs, q) ==
    IF docs = <<>> THEN <<>>
    ELSE (IF Matches(q, Head(docs)) THEN <<Head(docs)>> ELSE <<>>)
             \o SegmentSearch(Tail(docs), q)

\* the loop of create_reader_for_snapshot from segment index idx on:
\* [segments |-> the segment readers, src |-> segment_reader_cache afterwards]
RECURSIVE OpenSegmentReaders(_, _, _, _)
OpenSegmentReaders(files, snapshot, idx, src) ==
    IF idx > Len(snapshot.segments) THEN [segments |-> <<>>, src |-> src]
    ELSE LET cache_key == <<snapshot.version, idx - 1>>
             id == snapshot.segments[idx]
         IN IF cache_key \in DOMAIN src
            THEN LET rest == OpenSegmentReaders(files, snapshot, idx + 1, src)
                 IN [segments |-> <<src[cache_key]>> \o rest.segments, src |-> rest.src]
            ELSE IF id \in DOMAIN files
            THEN LET src1 == [k \in DOMAIN src \cup {cache_key} |->
                                 IF k = cache_key THEN id ELSE src[k]]
                     rest == OpenSegmentReaders(files, snapshot, idx + 1, src1)
                 IN [segments |-> <<id>> \o rest.segments, src |-> rest.src]
            ELSE OpenSegmentReaders(files, snapshot, idx + 1, src)

create_reader_for_snapshot(files, snapshot, src) ==
    LET opened == OpenSegmentReaders(files, snapshot, 1, src)
    IN [reader |-> [snapshot |-> snapshot, segments |-> opened.segments,
                    deleted_docs |-> snapshot.deleted_docs],
        src |-> opened.src]

\* an eviction that leaves the per-segment readers alone
cleanupKeepingSegmentReaders(rc, src) ==
    LET keep_count == MaxReaders \div 2
        n == Cardinality(DOMAIN rc)
        to_remove == n - keep_count
        removed == IF n > keep_count
                   THEN {v \in DOMAIN rc : Cardinality({u \in DOMAIN rc : u < v}) < to_remove}
                   ELSE {}
    IN [rc |-> [v \in DOMAIN rc \ removed |-> rc[v]], src |-> src]

\* [rc |-> reader_cache, src |-> segment_reader_cache] after the eviction
cleanup_old_readers(rc, src) ==
    LET keep_count == MaxReaders \div 2
        n == Cardinality(DOMAIN rc)
        to_remove == n - keep_count
        removed == IF n > keep_count
                   THEN {v \in DOMAIN rc : Cardinality({u \in DOMAIN rc : u < v}) < to_remove}
                   ELSE {}
    IN [rc |-> [v \in DOMAIN rc \ removed |-> rc[v]],
        src |-> [k \in {k \in DOMAIN src : k[1] \notin removed} |-> src[k]]]

\* ReaderPool::get_reader, given the snapshot current_snapshot() returned
get_reader(files, snapshot, rc, src) ==
    IF snapshot.version \in DOMAIN rc
    THEN [reader |-> rc[snapshot.version], rc |-> rc, src |-> src]
    ELSE LET created == create_reader_for_snapshot(files, snapshot, src)
             rc1 == [v \in DOMAIN rc \cup {snapshot.version} |->
                        IF v = snapshot.version THEN created.reader ELSE rc[v]]
             cleaned == IF Cardinality(DOMAIN rc1) > MaxReaders
                        THEN cleanup_old_readers(rc1, created.src)
                        ELSE [rc |-> rc1, src |-> created.src]
         IN [reader |-> created.reader, rc |-> cleaned.rc, src |-> cleaned.src]

\* the segment loop of IndexReader::search_with_limit.  Every hit of
\* SegmentSearch has score 1.0, so the stable sorts leave the order alone and
\* the k-th score is 1.0 > 0.5: the loop breaks once 3 * limit hits are in.
RECURSIVE SearchSegments(_, _, _, _, _)
SearchSegments(files, segs, q, limit, all_results) ==
    IF segs = <<>> THEN all_results
    ELSE IF Len(all_results) >= limit * 3 /\ Len(all_results) >= limit
        THEN all_results
    ELSE SearchSegments(files, Tail(segs), q, limit,
                        all_results \o SegmentSearch(files[Head(segs)], q))

search_with_limit(files, reader, q, limit) ==
    LET all_results == SearchSegments(files, reader.segments, q, limit, <<>>)
        live == SelectSeq(all_results, LAMBDA d : BitmapKey(d) \notin reader.deleted_docs)
    IN [hits |-> IF Len(live) > limit THEN SubSeq(live, 1, limit) ELSE live,
        total_hits |-> Len(live)]

\* the segment loop of QueryExecutor::execute: a hit whose id is in the
\* deletion bitmap is skipped before it is collected; the segments left are
\* skipped once 3 * limit candidates are collected
RECURSIVE ExecuteSegments(_, _, _, _, _, _)
ExecuteSegments(files, segs, deleted_docs, q, limit, candidates) ==
    IF segs = <<>> \/ Len(candidates) >= 3 * limit THEN candidates
    ELSE ExecuteSegments(files, Tail(segs), deleted_docs, q, limit,
             candidates \o SelectSeq(SegmentSearch(files[Head(segs)], q),
                                     LAMBDA d : BitmapKey(d) \notin deleted_docs))

\* QueryExecutor::execute(&reader, &query, limit, config): the best `limit`
\* of the collected candidates (all scores are equal in the model)
QueryExecutorExecute(files, reader, q, limit) ==
    LET candidates == ExecuteSegments(files, reader.segments, reader.deleted_docs,
                                      q, limit, <<>>)
    IN [hits |-> IF Len(candidates) > limit THEN SubSeq(candidates, 1, limit)
                 ELSE candidates,
        total_hits |-> Len(candidates)]

\* QueryCacheKey::new(query_str, limit, offset); the 64-bit hash of the query
\* text is injective on the queries of the model
QueryCacheKey(q, limit, offset) == <<q, limit, offset>>

\* the documents a snapshot makes visible: those of its segments whose key
\* is not in its deletion bitmap
VisibleDocs(files, snapshot) ==
    {d \in Range(DocsOfSegments(files, snapshot.segments)) :
        BitmapKey(d) \notin snapshot.deleted_docs}

\* ------------------------------------------------------------------ codecs
\* a u32 is the pair <<high 16 bits, low 16 bits>>
Half == 65536
U32(n) == <<n \div Half, n % Half>>
U32Lt(a, b) == a[1] < b[1] \/ (a[1] = b[1] /\ a[2] < b[2])
U32Le(a, b) == a = b \/ U32Lt(a, b)

\* u32::wrapping_sub and u32::wrapping_add
wrapping_sub(a, b) ==
    LET borrow == IF a[2] < b[2] THEN 1 ELSE 0
    IN <<(a[1] - b[1] - borrow + 2 * Half) % Half, (a[2] - b[2] + Half) % Half>>

wrapping_add(a, b) ==
    LET carry == (a[2] + b[2]) \div Half
    IN <<(a[1] + b[1] + carry) % Half, (a[2] + b[2]) % Half>>

\* a shift of the low half alone
ShiftRight7Low(v) == <<0, v[2] \div 128>>

\* value >> 7, and u32 << shift, which drops the bits shifted out
ShiftRight7(v) == <<v[1] \div 128, (v[2] \div 128) + (v[1] % 128) * 512>>

RECURSIVE ShiftLeft(_, _)
ShiftLeft(v, shift) ==
    IF shift = 0 THEN v
    ELSE ShiftLeft(<<(2 * v[1] + v[2] \div 32768) % Half, (2 * v[2]) % Half>>, shift - 1)

RECURSIVE BitOr16(_, _)
BitOr16(x, y) ==
    IF x = 0 THEN y ELSE IF y = 0 THEN x
    ELSE (IF x % 2 = 1 \/ y % 2 = 1 THEN 1 ELSE 0) + 2 * BitOr16(x \div 2, y \div 2)

BitOr(a, b) == <<BitOr16(a[1], b[1]), BitOr16(a[2], b[2])>>

U32ToLeBytes(v) == <<v[2] % 256, v[2] \div 256, v[1] % 256, v[1] \div 256>>
U32FromLeBytes(b) == <<b[3] + 256 * b[4], b[1] + 256 * b[2]>>

\* VByteEncoder::encode_u32 (vbyte.rs; delta.rs has a copy of it)
RECURSIVE encode_u32(_, _)
encode_u32(output, value) ==
    IF value[1] > 0 \/ value[2] >= 128
    THEN encode_u32(Append(output, (value[2] % 128) + 128), ShiftRight7(value))
    ELSE Append(output, value[2])

\* VByteEncoder::encode_u32_list
RECURSIVE VByteEncodeFrom(_, _)
VByteEncodeFrom(nums, output) ==
    IF nums = <<>> THEN output
    ELSE VByteEncodeFrom(Tail(nums), encode_u32(output, Head(nums)))

vbyte_encode_u32_list(nums) == VByteEncodeFrom(nums, <<>>)

\* VByteEncoder::decode_u32: the loop over the input bytes from byte i
RECURSIVE DecodeU32Loop(_, _, _, _)
DecodeU32Loop(input, i, value, shift) ==
    IF i > Len(input)
    THEN [ok |-> FALSE, error |-> "Incomplete VByte", value |-> U32(0), consumed |-> 0]
    ELSE LET byte == input[i]
             v == BitOr(value, ShiftLeft(U32(byte % 128), shift))
         IN IF byte < 128
            THEN [ok |-> TRUE, error |-> "none", value |-> v, consumed |-> i]
            ELSE IF shift + 7 > 28
            THEN [ok |-> FALSE, error |-> "VByte overflow", value |-> U32(0),
                  consumed |-> 0]
            ELSE DecodeU32Loop(input, i + 1, v, shift + 7)

decode_u32(input) == DecodeU32Loop(input, 1, U32(0), 0)

\* VByteEncoder::decode_u32_list
RECURSIVE VByteDecodeFrom(_, _)
VByteDecodeFrom(data, nums) ==
    IF data = <<>> THEN [ok |-> TRUE, nums |-> nums]
    ELSE LET d == decode_u32(data)
         IN IF ~d.ok THEN [ok |-> FALSE, nums |-> <<>>]
            ELSE VByteDecodeFrom(SubSeq(data, d.consumed + 1, Len(data)),
                                 Append(nums, d.value))

vbyte_decode_u32_list(data) == VByteDecodeFrom(data, <<>>)

\* DeltaEncoder::encode_u32_list: the first value raw, then the deltas
RECURSIVE DeltaEncodeFrom(_, _, _)
DeltaEncodeFrom(nums, i, output) ==
    IF i > Len(nums) THEN output
    ELSE DeltaEncodeFrom(nums, i + 1,
                         encode_u32(output, wrapping_sub(nums[i], nums[i - 1])))

delta_encode_u32_list(nums) ==
    IF nums = <<>> THEN <<>>
    ELSE DeltaEncodeFrom(nums, 2, U32ToLeBytes(nums[1]))

\* DeltaEncoder::decode_u32_list
RECURSIVE DeltaDecodeFrom(_, _, _)
DeltaDecodeFrom(data, nums, prev) ==
    IF data = <<>> THEN [ok |-> TRUE, nums |-> nums]
    ELSE LET d == decode_u32(data)
             val == wrapping_add(prev, d.value)
         IN IF ~d.ok THEN [ok |-> FALSE, nums |-> <<>>]
            ELSE DeltaDecodeFrom(SubSeq(data, d.consumed + 1, Len(data)),
                                 Append(nums, val), val)

delta_decode_u32_list(data) ==
    IF Len(data) < 4 THEN [ok |-> TRUE, nums |-> <<>>]
    ELSE LET first == U32FromLeBytes(SubSeq(data, 1, 4))
         IN DeltaDecodeFrom(SubSeq(data, 5, Len(data)), <<first>>, first)

\* --------------------------------------------------------------- skip list
\* PostingList::new, the doc ids: delta-encoded
PostingListNew(ids) ==
    [doc_ids |-> delta_encode_u32_list([i \in 1..Len(ids) |-> U32(ids[i])])]

\* PostingList::decode_doc_ids
decode_doc_ids(pl) ==
    LET nums == delta_decode_u32_list(pl.doc_ids).nums
    IN [i \in 1..Len(nums) |-> nums[i][1] * Half + nums[i][2]]

None == [some |-> FALSE, index |-> 0]
Some(i) == [some |-> TRUE, index |-> i]

\* slice::binary_search(..).ok() on a sorted slice; indexes count from 0
RECURSIVE BinarySearch(_, _, _, _)
BinarySearch(doc_ids, target, left, right) ==
    IF left >= right THEN None
    ELSE LET mid == left + (right - left) \div 2
         IN IF doc_ids[mid + 1] = target THEN Some(mid)
            ELSE IF doc_ids[mid + 1] < target
            THEN BinarySearch(doc_ids, target, mid + 1, right)
            ELSE BinarySearch(doc_ids, target, left, mid)

\* PostingList::find_doc
find_doc(pl, target) ==
    LET doc_ids == decode_doc_ids(pl)
    IN BinarySearch(doc_ids, target, 0, Len(doc_ids))

\* (len as f32).sqrt() as usize
Isqrt(n) == CHOOSE k \in 0..n : k * k <= n /\ (k + 1) * (k + 1) > n

\* SkipList::build: one entry every `interval` doc ids, positions from 0;
\* skip_to is -1 for None
SkipListBuild(pl) ==
    LET doc_ids == decode_doc_ids(pl)
        len == Len(doc_ids)
        interval == IF Isqrt(len) > 4 THEN Isqrt(len) ELSE 4
        count == (len + interval - 1) \div interval
    IN [entries |-> [k \in 1..count |->
                        [doc_id |-> doc_ids[(k - 1) * interval + 1],
                         position |-> (k - 1) * interval,
                         skip_to |-> IF k * interval < len THEN k * interval ELSE -1]],
        doc_ids |-> doc_ids,
        skip_interval |-> interval]

\* a loop over the skip entries that stops at the last entry
FindSkipLast(entries, k, target, pos) ==
    IF entries = <<>> THEN pos ELSE entries[Len(entries)].position

\* SkipList::find, the loop over the skip entries
RECURSIVE FindSkip(_, _, _, _)
FindSkip(entries, k, target, pos) ==
    IF k > Len(entries) \/ entries[k].doc_id > target THEN pos
    ELSE FindSkip(entries, k + 1, target, entries[k].position)

\* SkipList::find, the linear scan from the skip position
RECURSIVE FindScan(_, _, _)
FindScan(doc_ids, i, target) ==
    IF i >= Len(doc_ids) THEN None
    ELSE IF doc_ids[i + 1] = target THEN Some(i)
    ELSE IF doc_ids[i + 1] > target THEN None
    ELSE FindScan(doc_ids, i + 1, target)

\* SkipList::find
find(list, target) ==
    FindScan(list.doc_ids, FindSkip(list.entries, 1, target, 0), target)

\* SkipList::skip_to_ge: the first skip entry at or after `from` whose doc id
\* is >= target, else the linear scan
skip_to_ge(list, target, from) ==
    LET found == {k \in 1..Len(list.entries) :
                     /\ list.entries[k].position >= from
                     /\ list.entries[k].doc_id >= target}
        at == {i \in from..(Len(list.doc_ids) - 1) : list.doc_ids[i + 1] >= target}
    IN IF found # {} THEN list.entries[SetMin(found)].position
       ELSE IF at # {} THEN SetMin(at)
       ELSE Len(list.doc_ids)

\* SkipList::intersect
RECURSIVE IntersectLoop(_, _, _, _, _)
IntersectLoop(list1, list2, i, j, result) ==
    IF ~(i < Len(list1.doc_ids) /\ j < Len(list2.doc_ids)) THEN result
    ELSE LET doc1 == list1.doc_ids[i + 1]
             doc2 == list2.doc_ids[j + 1]
         IN IF doc1 = doc2
            THEN IntersectLoop(list1, list2, i + 1, j + 1, Append(result, doc1))
            ELSE IF doc1 < doc2
            THEN IntersectLoop(list1, list2, skip_to_ge(list1, doc2, i), j, result)
            ELSE IntersectLoop(list1, list2, i, skip_to_ge(list2, doc1, j), result)

intersect(list1, list2) == IntersectLoop(list1, list2, 0, 0, <<>>)

\* ------------------------------------------------------------------- state
WriterWalFile == 0   \* IndexWriter::new: WAL::open(&storage, 0)

IdleWriter ==
    [pc |-> "idle", op |-> "none", doc |-> 0, caller |-> "none", segments |-> <<>>,
     deleted_docs |-> {}, version |-> 0, readAt |-> 0]

FreeMerge ==
    [pc |-> "free", src |-> <<>>, todo |-> <<>>, out |-> <<>>, cur |-> DefaultSnapshot,
     merged |-> 0, new_segments |-> <<>>, version |-> 0, readAt |-> 0]

NoRecover == [pc |-> "none", seqs |-> <<>>, queue |-> <<>>, replayed |-> {}, lens |-> <<>>]

NoReader == [reader |-> [snapshot |-> DefaultSnapshot, segments |-> <<>>, deleted_docs |-> {}],
             valid |-> FALSE, at |-> DefaultSnapshot, cur |-> DefaultSnapshot,
             hits0 |-> <<>>, evicted |-> {}, released |-> {}]

\* no MVCCController::begin_transaction call is in progress
NoTxn == [pc |-> "none", id |-> 0]

\* no Transaction::commit call has been made
NoCommit ==
    [called |-> FALSE, returned |-> FALSE, was_active |-> FALSE, reads |-> {},
     published_at_call |-> FALSE, published_at_return |-> FALSE, result |-> "none"]

\* the client has no Transaction. read_set is a set of <<doc id, version>>,
\* by is the caller of the commit in progress, todo the operations
\* with_transaction still has to execute; steps, writer_calls, seen (the
\* versions published at begin), dropped (the operations logged when the
\* block failed) and commit are history
NoTransaction ==
    [state |-> "None", isolation_level |-> "none", snapshot_version |-> 0,
     operations |-> <<>>, read_set |-> {}, write_set |-> {},
     pc |-> "none", by |-> "none", todo |-> <<>>, result |-> "none",
     steps |-> 0, writer_calls |-> 0, seen |-> {}, dropped |-> <<>>,
     commit |-> NoCommit,
     before |-> [set |-> FALSE, ops |-> 0, ids |-> <<>>]]  \* at the first writer call

\* no library function has been called
NoCall == [fn |-> "none"]

NoSearch == [valid |-> FALSE, q |-> 0, limit |-> 0, hits |-> <<>>, uncached |-> <<>>,
             from_cache |-> FALSE]

\* ------------------------------------------------------------------ search
\* what an un-cached search of the current snapshot returns
HitsOf(files, vs, cv, q, limit) ==
    QueryExecutorExecute(files,
        create_reader_for_snapshot(files, CurrentSnapshotOf(vs, cv), <<>>).reader,
        q, limit).hits

AllLimit == 10

\* the ids search(q) returns, for every query, without the query cache
SearchIds(files, vs, cv) ==
    [q \in Queries |-> Range(HitsOf(files, vs, cv, q, AllLimit))]

NoCompact ==
    [called |-> FALSE, returned |-> FALSE, undisturbed |-> FALSE,
     before |-> [q \in Queries |-> {}], after |-> [q \in Queries |-> {}],
     segments_before |-> 0, segments_after |-> 0, deleted_before |-> {},
     deleted_after |-> {}]

\* no writer call has failed in its WAL append
NoFailure ==
    [called |-> FALSE, op |-> "none", staging_before |-> <<>>, staging_after |-> <<>>,
     snapshot_before |-> DefaultSnapshot, snapshot_after |-> DefaultSnapshot,
     publishing |-> FALSE]

NoHistory ==
    [lastOp |-> [d \in DocIds |-> "none"],    \* last acknowledged call on a document
     atCommit |-> [d \in DocIds |-> "none"],  \* lastOp at the last commit(), if untouched since
     lostDel |-> {},        \* deleted when the process was lost, not added since
     lostAdded |-> {},      \* added and committed when the process was lost, untouched since
     lostDeleted |-> {},    \* deleted and committed when the process was lost, untouched since
     maxRet |-> -1,         \* highest version a create_snapshot call has returned
     compact |-> NoCompact, \* what the last compact() call saw and left
     deleteAt |-> DefaultSnapshot, \* latest published snapshot at the last delete()
     flushAt |-> DefaultSnapshot,  \* latest published snapshot at the flush in progress
     flushed |-> {},        \* the segments whose flush has returned
     covers |-> {},         \* <<merged segment, source segment>> of the merges
     delSince |-> {},       \* deleted by a delete() that returned after the last flush
     txHeld |-> {},         \* <<TxId, version of the snapshot held>> of active transactions
     expected |-> {},       \* the versions the documented GC rule retains
     failed |-> NoFailure,  \* what the last writer call whose WAL append failed left
     recHits |-> <<>>]      \* what each recover() of a run of recover() calls left

\* the memory of a freshly opened engine (Database::open_with_schema); it is
\* also what is left of a dead process
FreshMemory ==
    /\ versions' = <<>>
    /\ current_version' = 0
    /\ active_txns' = {}
    /\ staging' = <<>>
    /\ wal_sequence' = 0
    /\ w' = IdleWriter
    /\ merges' = [m \in 1..MaxMerge |-> FreeMerge]
    /\ reader_cache' = <<>>
    /\ segment_reader_cache' = <<>>
    /\ query_cache' = <<>>
    /\ held' = NoReader
    /\ lastSearch' = NoSearch
    /\ libcall' = NoCall
    /\ second_open' = second_open
    /\ txn' = NoTxn
    /\ tx' = NoTransaction
    /\ rec' = NoRecover

\* the engine after Database::open_with_schema on an empty directory
InitEngine(b) ==
    /\ segFiles = <<>>
    /\ walFiles = [s \in {WriterWalFile} |-> <<>>]
    /\ open = TRUE
    /\ versions = <<>>
    /\ current_version = 0
    /\ active_txns = {}
    /\ staging = <<>>
    /\ wal_sequence = 0
    /\ w = IdleWriter
    /\ merges = [m \in 1..MaxMerge |-> FreeMerge]
    /\ reader_cache = <<>>
    /\ segment_reader_cache = <<>>
    /\ query_cache = <<>>
    /\ held = NoReader
    /\ lastSearch = NoSearch
    /\ second_open = FALSE
    /\ txn = NoTxn
    /\ tx = NoTransaction
    /\ rec = NoRecover
    /\ g = NoHistory
    /\ budget = b

InitWith(b) == InitEngine(b) /\ libcall = NoCall

\* a client that only calls library functions
NoBudget == [ops |-> 0, searches |-> 0, crashes |-> 0, recovers |-> 0, slots |-> 0,
             script |-> <<>>, txns |-> 0]

engineVars == <<segFiles, walFiles, open, versions, current_version, active_txns,
                staging, wal_sequence, w, merges, reader_cache, segment_reader_cache,
                query_cache, held, lastSearch, second_open, txn, tx, rec, g, budget>>


\* ----------------------------------------------------------------- history
\* a writer call made by caller c returns: what has been acknowledged, and
\* the end of recover() when the call was its closing commit
Ack(gBase, recBase, op, d, c, files, vs, cv) ==
    /\ g' = IF c \in {"client", "tx"}
            THEN CASE op = "add" ->
                          [gBase EXCEPT !.lastOp[d] = "add", !.atCommit[d] = "none",
                                        !.lostDel = @ \ {d}, !.lostAdded = @ \ {d},
                                        !.lostDeleted = @ \ {d}, !.recHits = <<>>]
                   [] op = "delete" ->
                          [gBase EXCEPT !.lastOp[d] = "del", !.atCommit[d] = "none",
                                        !.lostAdded = @ \ {d}, !.lostDeleted = @ \ {d},
                                        !.recHits = <<>>]
                   [] op = "commit" ->
                          [gBase EXCEPT !.atCommit = gBase.lastOp, !.recHits = <<>>]
                   [] OTHER -> [gBase EXCEPT !.recHits = <<>>]
            ELSE IF op = "commit"
            THEN [gBase EXCEPT !.recHits =
                     Append(@, [hits |-> HitsOf(files, vs, cv, MatchAll, AllLimit),
                                deleted_docs |-> CurrentSnapshotOf(vs, cv).deleted_docs])]
            ELSE gBase
    /\ rec' = IF c = "recover" /\ op = "commit"
              THEN [recBase EXCEPT !.pc = "done"] ELSE recBase

\* --------------------------------------------------------------------- WAL
\* WAL::append: the entry carries self.sequence, which is then incremented
WalAppend(operation, d) ==
    /\ walFiles' = [walFiles EXCEPT ![WriterWalFile] =
                       Append(@, [sequence |-> wal_sequence, operation |-> operation,
                                  doc |-> d])]
    /\ wal_sequence' = wal_sequence + 1

\* WAL::append returns an error: nothing is left in the file ("nothing":
\* bincode::serialize or the write failed), or the whole entry is, and the
\* sequence is incremented ("entry": the closing sync_all failed)
WalAppendOutcomes == {"nothing", "entry"}

WalAppendFails(operation, d, left) ==
    IF left = "entry" THEN WalAppend(operation, d)
    ELSE UNCHANGED <<walFiles, wal_sequence>>

\* ------------------------------------------------------------ writer calls
\* an add_document that stages the document whatever wal.append returned
StagedWhateverAppend(stg, d, appended) == Append(stg, d)

\* IndexWriter::add_document: the staged documents once wal.append returned;
\* write_document is reached only when the append succeeded
StagedAfterAppend(stg, d, appended) ==
    IF appended THEN Append(stg, d) ELSE stg

\* IndexWriter::delete_document: the publication started once wal.append
\* returned; the bitmap is built only when the append succeeded
PublicationAfterAppend(wr, snapshot, d, c, appended) ==
    IF appended
    THEN [pc |-> "fetch", op |-> "delete", doc |-> d, caller |-> c,
          segments |-> snapshot.segments,
          deleted_docs |-> snapshot.deleted_docs \cup {BitmapKey(d)},
          version |-> 0, readAt |-> current_version]
    ELSE wr

\* IndexWriter::add_document
DoAdd(d, c, recNext) ==
    LET staged == StagedAfterAppend(staging, d, TRUE)
    IN /\ WalAppend("AddDocument", d)
       /\ UNCHANGED <<mvccVars, merges>>
       /\ IF Len(staged) >= BatchSize
          THEN /\ segFiles' = Append(segFiles, staged)
               /\ staging' = <<>>
               /\ w' = [pc |-> "fetch", op |-> "add", doc |-> d, caller |-> c,
                        segments |-> Append(current_snapshot.segments, Len(segFiles) + 1),
                        deleted_docs |-> {}, version |-> 0, readAt |-> current_version]
               /\ g' = [g EXCEPT !.flushAt = LatestPublished]
               /\ rec' = recNext
          ELSE /\ staging' = staged
               /\ UNCHANGED <<segFiles, w>>
               /\ Ack(g, recNext, "add", d, c, segFiles, versions, current_version)

\* IndexWriter::delete_document
DoDelete(d, c, recNext) ==
    LET snapshot == current_snapshot
    IN /\ WalAppend("DeleteDocument", d)
       /\ w' = PublicationAfterAppend(w, snapshot, d, c, TRUE)
       /\ g' = [g EXCEPT !.deleteAt = LatestPublished]
       /\ rec' = recNext
       /\ UNCHANGED <<segFiles, mvccVars, staging, merges>>

\* IndexWriter::merge_segments_async: the merge thread started for `segments`
SpawnMerge(files, segments) ==
    LET segments_to_merge == select_segments_to_merge(files, segments)
    IN IF segments_to_merge = <<>> THEN merges' = merges
       ELSE /\ \E m \in 1..budget.slots : merges[m].pc = "free"
            /\ LET m == SetMin({k \in 1..budget.slots : merges[k].pc = "free"})
               IN merges' = [merges EXCEPT ![m] =
                      [FreeMerge EXCEPT !.pc = "copy", !.src = segments_to_merge,
                                        !.todo = DocsOfSegments(files, segments_to_merge)]]

\* IndexWriter::flush (op "flush") and IndexWriter::commit (op "commit")
DoFlush(op, c, recNext) ==
    LET files == Append(segFiles, staging)
        segments == Append(current_snapshot.segments, Len(files))
    IN /\ segFiles' = files
       /\ staging' = <<>>
       /\ IF should_merge(files, segments)
          THEN SpawnMerge(files, segments) ELSE merges' = merges
       /\ w' = [pc |-> "fetch", op |-> op, doc |-> 0, caller |-> c,
                segments |-> segments, deleted_docs |-> {}, version |-> 0,
                readAt |-> current_version]
       /\ g' = [g EXCEPT !.flushAt = LatestPublished]
       /\ rec' = recNext
       /\ UNCHANGED <<walFiles, wal_sequence, mvccVars>>

\* a compact() that copies every document, deleted or not
CompactCopyAll(docs, deleted_docs) == docs

\* the copy loop of IndexWriter::compact: the documents of a segment whose key
\* is not in the snapshot's deletion bitmap
CompactCopy(docs, deleted_docs) ==
    SelectSeq(docs, LAMBDA d : BitmapKey(d) \notin deleted_docs)

\* IndexWriter::compact
DoCompact(c, recNext) ==
    LET snapshot == current_snapshot
        n == Len(snapshot.segments)
        kept(i) == CompactCopy(segFiles[snapshot.segments[i]], snapshot.deleted_docs)
    IN /\ UNCHANGED <<walFiles, wal_sequence, mvccVars, staging, merges>>
       /\ IF snapshot.deleted_docs = {}
          THEN /\ UNCHANGED <<segFiles, w>>
               /\ Ack([g EXCEPT !.compact =
                          [called |-> TRUE, returned |-> TRUE, undisturbed |-> TRUE,
                           before |-> SearchIds(segFiles, versions, current_version),
                           after |-> SearchIds(segFiles, versions, current_version),
                           segments_before |-> n, segments_after |-> n,
                           deleted_before |-> {}, deleted_after |-> {}]],
                      recNext, "compact", 0, c, segFiles, versions, current_version)
          ELSE /\ segFiles' = segFiles \o [i \in 1..n |-> kept(i)]
               /\ w' = [pc |-> "fetch", op |-> "compact", doc |-> 0, caller |-> c,
                        segments |-> [i \in 1..n |-> Len(segFiles) + i],
                        deleted_docs |-> {}, version |-> 0, readAt |-> current_version]
               /\ g' = [g EXCEPT !.compact =
                          [NoCompact EXCEPT
                             !.called = TRUE,
                             !.before = SearchIds(segFiles, versions, current_version),
                             !.segments_before = n,
                             !.deleted_before = snapshot.deleted_docs]]
               /\ rec' = recNext

\* create_snapshot_with_deletes, first half: current_version.fetch_add(1)
WriterFetch ==
    /\ open /\ w.pc = "fetch"
    /\ w' = [w EXCEPT !.pc = "insert", !.version = current_version]
    /\ current_version' = current_version + 1
    /\ UNCHANGED <<diskVars, open, versions, active_txns, staging, wal_sequence, merges,
                   poolVars, clientVars, rec, g, budget>>

\* create_snapshot_with_deletes, second half: versions.insert and the GC; the
\* writer call then returns (compact first appends its Commit record)
WriterInsert ==
    /\ open /\ w.pc = "insert"
    /\ LET snapshot == NewSnapshot(segFiles, w.version, w.segments, w.deleted_docs)
           vs == InsertVersion(versions, snapshot)
           g0 == [g EXCEPT !.flushAt = DefaultSnapshot,
                           !.flushed = IF w.op \in {"add", "flush", "commit"}
                                       THEN @ \cup {w.segments[Len(w.segments)]} ELSE @,
                           !.delSince = IF w.op = "delete" THEN @ \cup {w.doc} ELSE {},
                           !.maxRet = IF w.version > @ THEN w.version ELSE @,
                           !.expected = DocumentedRetention(@ \cup {w.version},
                                            {h[2] : h \in g.txHeld})]
           now == CurrentSnapshotOf(vs, current_version)
           g1 == IF w.op # "compact" THEN g0
                 ELSE [g0 EXCEPT
                         !.compact.returned = TRUE,
                         !.compact.undisturbed =
                             w.version = w.readAt /\ current_version = w.version + 1,
                         !.compact.after = SearchIds(segFiles, vs, current_version),
                         !.compact.segments_after = Len(now.segments),
                         !.compact.deleted_after = now.deleted_docs]
       IN /\ versions' = vs
          /\ IF w.op = "compact" THEN WalAppend("Commit", 0)
             ELSE UNCHANGED <<walFiles, wal_sequence>>
          /\ Ack(g1, rec, w.op, w.doc, w.caller, segFiles, vs, current_version)
    /\ w' = IdleWriter
    /\ UNCHANGED <<segFiles, open, current_version, active_txns, staging, merges,
                   poolVars, clientVars, budget>>

ClientMayWrite ==
    /\ open /\ w.pc = "idle" /\ rec.pc \in {"none", "done"}
    /\ budget.ops > 0
    /\ budget' = [budget EXCEPT !.ops = @ - 1]
    /\ UNCHANGED <<open, poolVars, clientVars>>

\* add_document and delete_document return the error of wal.append
Failed(op) ==
    /\ UNCHANGED <<segFiles, mvccVars, merges, rec>>
    /\ g' = [g EXCEPT !.failed =
                 [called |-> TRUE, op |-> op,
                  staging_before |-> staging, staging_after |-> staging',
                  snapshot_before |-> current_snapshot,
                  snapshot_after |-> CurrentSnapshotOf(versions', current_version'),
                  publishing |-> w'.pc # "idle"]]

AddDocumentFails(d, left) ==
    /\ ClientMayWrite
    /\ WalAppendFails("AddDocument", d, left)
    /\ staging' = StagedAfterAppend(staging, d, FALSE)
    /\ w' = w
    /\ Failed("add")

DeleteDocumentFails(d, left) ==
    /\ ClientMayWrite
    /\ WalAppendFails("DeleteDocument", d, left)
    /\ staging' = staging
    /\ w' = PublicationAfterAppend(w, current_snapshot, d, "client", FALSE)
    /\ Failed("delete")

AddDocument(d) == ClientMayWrite /\ DoAdd(d, "client", rec)
DeleteDocument(d) == ClientMayWrite /\ DoDelete(d, "client", rec)
Flush == ClientMayWrite /\ DoFlush("flush", "client", rec)
Commit == ClientMayWrite /\ DoFlush("commit", "client", rec)
Compact == ClientMayWrite /\ DoCompact("client", rec)

\* -------------------------------------------------------- background merge
\* merge_segments_impl, one document of the copy loop: it is dropped when the
\* snapshot current at that moment has it in the deletion bitmap
MergeCopy(m) ==
    /\ open /\ merges[m].pc = "copy" /\ merges[m].todo # <<>>
    /\ LET d == Head(merges[m].todo)
       IN merges' = [merges EXCEPT
             ![m].todo = Tail(@),
             ![m].out = IF BitmapKey(d) \notin current_snapshot.deleted_docs
                        THEN Append(@, d) ELSE @]
    /\ UNCHANGED <<diskVars, open, mvccVars, writerVars, poolVars, clientVars, rec, g,
                   budget>>

\* merged_writer.finish(), then the read of the current snapshot and the new
\* segment list: the segments not being merged, then the merged segment
MergeFinish(m) ==
    /\ open /\ merges[m].pc = "copy" /\ merges[m].todo = <<>>
    /\ LET cur == current_snapshot
           merged == Len(segFiles) + 1
           keep == SelectSeq(cur.segments, LAMBDA id : id \notin Range(merges[m].src))
       IN /\ segFiles' = Append(segFiles, merges[m].out)
          /\ merges' = [merges EXCEPT ![m].pc = "fetch", ![m].cur = cur,
                                      ![m].merged = merged,
                                      ![m].new_segments = Append(keep, merged),
                                      ![m].readAt = current_version]
          /\ g' = [g EXCEPT !.covers = @ \cup {<<merged, id>> : id \in Range(merges[m].src)}]
    /\ UNCHANGED <<walFiles, open, mvccVars, writerVars, poolVars, clientVars, rec,
                   budget>>

\* a version counter read and written in two steps: the merge takes the
\* version it saw when it read the current snapshot
MergeFetchStale(m) ==
    /\ open /\ merges[m].pc = "fetch"
    /\ merges' = [merges EXCEPT ![m].pc = "insert", ![m].version = merges[m].readAt]
    /\ current_version' = merges[m].readAt + 1
    /\ UNCHANGED <<diskVars, open, versions, active_txns, writerVars, poolVars,
                   clientVars, rec, g, budget>>

\* mvcc.create_snapshot(new_segments), first half
MergeFetch(m) ==
    /\ open /\ merges[m].pc = "fetch"
    /\ merges' = [merges EXCEPT ![m].pc = "insert", ![m].version = current_version]
    /\ current_version' = current_version + 1
    /\ UNCHANGED <<diskVars, open, versions, active_txns, writerVars, poolVars,
                   clientVars, rec, g, budget>>

\* the deletion bitmap create_snapshot publishes
CreateSnapshotDeletes == {}

\* mvcc.create_snapshot(new_segments), second half; the thread ends
MergeInsert(m) ==
    /\ open /\ merges[m].pc = "insert"
    /\ versions' = InsertVersion(versions,
           NewSnapshot(segFiles, merges[m].version, merges[m].new_segments,
                       CreateSnapshotDeletes))
    /\ merges' = [merges EXCEPT ![m] = FreeMerge]
    /\ g' = [g EXCEPT !.maxRet = IF merges[m].version > @ THEN merges[m].version ELSE @,
                      !.expected = DocumentedRetention(@ \cup {merges[m].version},
                                       {h[2] : h \in g.txHeld})]
    /\ UNCHANGED <<diskVars, open, current_version, active_txns, writerVars, poolVars,
                   clientVars, rec, budget>>

\* ------------------------------------------------------------------ client
\* ReaderPool::get_reader; the client keeps the reader
GetReader ==
    /\ open /\ budget.searches > 0
    /\ budget' = [budget EXCEPT !.searches = @ - 1]
    /\ LET got == get_reader(segFiles, current_snapshot, reader_cache,
                             segment_reader_cache)
       IN /\ reader_cache' = got.rc
          /\ segment_reader_cache' = got.src
          /\ held' = [reader |-> got.reader, valid |-> TRUE, at |-> LatestPublished,
                      cur |-> current_snapshot,
                      hits0 |-> [k \in Queries \X Limits |->
                          search_with_limit(segFiles, got.reader, k[1], k[2]).hits],
                      evicted |-> (DOMAIN reader_cache \cup {current_snapshot.version})
                                      \ DOMAIN got.rc,
                      released |-> {k[1] : k \in DOMAIN segment_reader_cache}
                                      \ {k[1] : k \in DOMAIN got.src}]
    /\ UNCHANGED <<diskVars, open, mvccVars, writerVars, merges, query_cache,
                   lastSearch, libcall, second_open, txn, tx, rec, g>>

\* Database::search_with_limit
Search(q, limit) ==
    /\ open /\ budget.searches > 0
    /\ budget' = [budget EXCEPT !.searches = @ - 1]
    /\ LET key == QueryCacheKey(q, limit, 0)
           uncached == HitsOf(segFiles, versions, current_version, q, limit)
       IN IF key \in DOMAIN query_cache
          THEN /\ lastSearch' = [valid |-> TRUE, q |-> q, limit |-> limit,
                                 hits |-> query_cache[key], uncached |-> uncached,
                                 from_cache |-> TRUE]
               /\ UNCHANGED <<poolVars, query_cache>>
          ELSE LET got == get_reader(segFiles, current_snapshot, reader_cache,
                                     segment_reader_cache)
                   results == QueryExecutorExecute(segFiles, got.reader, q, limit)
               IN /\ reader_cache' = got.rc
                  /\ segment_reader_cache' = got.src
                  /\ query_cache' = [k \in DOMAIN query_cache \cup {key} |->
                                        IF k = key THEN results.hits ELSE query_cache[k]]
                  /\ lastSearch' = [valid |-> TRUE, q |-> q, limit |-> limit,
                                    hits |-> results.hits, uncached |-> uncached,
                                    from_cache |-> FALSE]
    /\ UNCHANGED <<diskVars, open, mvccVars, writerVars, merges, held, libcall, second_open, txn, tx,
                   rec, g>>

\* MVCCController::begin_transaction: the id is the version counter, and the
\* id is registered; the snapshot is read in a second step
BeginTransaction ==
    /\ open /\ txn.pc = "none" /\ budget.txns > 0
    /\ budget' = [budget EXCEPT !.txns = @ - 1]
    /\ txn' = [pc |-> "snapshot", id |-> current_version]
    /\ active_txns' = active_txns \cup {current_version}
    /\ UNCHANGED <<diskVars, open, versions, current_version, writerVars, merges,
                   poolVars, query_cache, held, lastSearch, libcall, second_open, tx, rec, g>>

\* MVCCController::begin_transaction: snapshot: self.current_snapshot()
BeginTransactionSnapshot ==
    /\ open /\ txn.pc = "snapshot"
    /\ txn' = NoTxn
    /\ g' = [g EXCEPT !.txHeld = @ \cup {<<txn.id, current_snapshot.version>>}]
    /\ UNCHANGED <<diskVars, open, mvccVars, writerVars, merges, poolVars,
                   query_cache, held, lastSearch, libcall, second_open, tx, rec, budget>>

\* MVCCController::commit_transaction
CommitTransaction(id) ==
    /\ open /\ \E h \in g.txHeld : h[1] = id
    /\ active_txns' = active_txns \ {id}
    /\ g' = [g EXCEPT !.txHeld = {h \in @ : h[1] # id}]
    /\ UNCHANGED <<diskVars, open, versions, current_version, writerVars, merges,
                   poolVars, clientVars, rec, budget>>

\* ---------------------------------------------------- core::Transaction
\* a snapshot has been published since the transaction began
PublishedSince(t) == DOMAIN versions \ t.seen # {}

\* Transaction::begin, as Database::with_transaction calls it
TransactionBegin(iso) ==
    /\ open /\ tx.pc = "none" /\ budget.txns > 0
    /\ budget' = [budget EXCEPT !.txns = @ - 1]
    /\ tx' = [NoTransaction EXCEPT !.state = "Active", !.isolation_level = iso,
                                   !.snapshot_version = current_snapshot.version,
                                   !.pc = "block", !.seen = DOMAIN versions]
    /\ UNCHANGED <<diskVars, open, mvccVars, writerVars, merges, poolVars,
                   query_cache, held, lastSearch, libcall, second_open, txn, rec, g>>

\* the user block of with_transaction may make one more call on the transaction
BlockMayCall ==
    /\ open /\ tx.pc = "block" /\ tx.steps < MaxTxOps
    /\ UNCHANGED <<diskVars, open, mvccVars, writerVars, merges, poolVars,
                   query_cache, held, lastSearch, libcall, second_open, txn, rec, g, budget>>

\* Transaction::read: a document of the write set is not tracked
TransactionRead(d) ==
    /\ BlockMayCall
    /\ tx' = IF tx.state # "Active" \/ d \in tx.write_set
             THEN [tx EXCEPT !.steps = @ + 1]
             ELSE [tx EXCEPT !.steps = @ + 1,
                             !.read_set = {r \in @ : r[1] # d}
                                          \cup {<<d, tx.snapshot_version>>}]

\* Transaction::insert
TransactionInsert(d) ==
    /\ BlockMayCall
    /\ tx' = IF tx.state # "Active" THEN [tx EXCEPT !.steps = @ + 1]
             ELSE [tx EXCEPT !.steps = @ + 1, !.write_set = @ \cup {d},
                             !.operations = Append(@, <<"Insert", d>>)]

\* Transaction::update
TransactionUpdate(d) ==
    /\ BlockMayCall
    /\ tx' = IF tx.state # "Active" THEN [tx EXCEPT !.steps = @ + 1]
             ELSE [tx EXCEPT !.steps = @ + 1, !.write_set = @ \cup {d},
                             !.operations = Append(@, <<"Update", d>>)]

\* Transaction::delete
TransactionDelete(d) ==
    /\ BlockMayCall
    /\ tx' = IF tx.state # "Active" THEN [tx EXCEPT !.steps = @ + 1]
             ELSE [tx EXCEPT !.steps = @ + 1, !.write_set = @ \ {d},
                             !.operations = Append(@, <<"Delete", d>>)]

\* an abort that only marks the transaction
abortMarking(t) == [t EXCEPT !.state = "Aborted"]

\* Transaction::abort
abort(t) ==
    [t EXCEPT !.state = "Aborted", !.operations = <<>>, !.read_set = {},
              !.write_set = {}]

\* Transaction::commit: the levels whose read set is validated
validated(isolation_level) == isolation_level # "ReadCommitted"

\* Transaction::validate_reads against the snapshot current_snapshot() returned
validate_reads(t, snapshot) ==
    \A r \in t.read_set : r[2] = snapshot.version

\* where a commit() called by `by` returns to: the user block, or
\* with_transaction, which goes on with the operations when the commit
\* succeeded and returns the error otherwise
AfterCommit(t, by, result) ==
    [t EXCEPT !.by = "none",
              !.pc = IF by = "block" THEN "block"
                     ELSE IF result = "Ok" THEN "apply" ELSE "done",
              !.todo = IF by = "db" /\ result = "Ok" THEN t.operations ELSE <<>>,
              !.result = IF by = "db" /\ result # "Ok" THEN result ELSE t.result,
              !.commit.returned = TRUE,
              !.commit.result = result,
              !.commit.published_at_return = PublishedSince(t)]

\* Transaction::commit, phase 1: called by the user block ("block") or by
\* with_transaction after the block returned Ok ("db")
TransactionPrepare(by) ==
    /\ open /\ tx.pc = "block"
    /\ by = "block" => tx.steps < MaxTxOps
    /\ LET called == [tx EXCEPT !.steps = IF by = "block" THEN @ + 1 ELSE @,
                                !.commit = [NoCommit EXCEPT
                                    !.called = TRUE,
                                    !.was_active = tx.state = "Active",
                                    !.reads = {r[1] : r \in tx.read_set},
                                    !.published_at_call = PublishedSince(tx)]]
       IN tx' = IF tx.state # "Active"
                THEN AfterCommit(called, by, "InvalidState")
                ELSE [called EXCEPT !.state = "Preparing", !.pc = "validate",
                                    !.by = by]
    /\ UNCHANGED <<diskVars, open, mvccVars, writerVars, merges, poolVars,
                   query_cache, held, lastSearch, libcall, second_open, txn, rec, g, budget>>

\* Transaction::commit, the validation of the read set
TransactionValidate ==
    /\ open /\ tx.pc = "validate"
    /\ tx' = IF validated(tx.isolation_level) /\ ~validate_reads(tx, current_snapshot)
             THEN AfterCommit(abort(tx), tx.by, "InvalidState")
             ELSE [tx EXCEPT !.pc = "commit"]
    /\ UNCHANGED <<diskVars, open, mvccVars, writerVars, merges, poolVars,
                   query_cache, held, lastSearch, libcall, second_open, txn, rec, g, budget>>

\* Transaction::commit, phase 2: the operations are returned
TransactionCommitted ==
    /\ open /\ tx.pc = "commit"
    /\ tx' = AfterCommit([tx EXCEPT !.state = "Committed"], tx.by, "Ok")
    /\ UNCHANGED <<diskVars, open, mvccVars, writerVars, merges, poolVars,
                   query_cache, held, lastSearch, libcall, second_open, txn, rec, g, budget>>

\* with_transaction, the user block returned an error: tx.rollback()
TransactionRollback ==
    /\ open /\ tx.pc = "block"
    /\ tx' = [abort(tx) EXCEPT !.pc = "done", !.result = "Err",
                               !.dropped = tx.operations]
    /\ UNCHANGED <<diskVars, open, mvccVars, writerVars, merges, poolVars,
                   query_cache, held, lastSearch, libcall, second_open, txn, rec, g, budget>>

\* what the searches returned when with_transaction made its first writer call
BeforeApply ==
    IF tx.before.set THEN tx.before
    ELSE [set |-> TRUE, ops |-> budget.ops,
          ids |-> SearchIds(segFiles, versions, current_version)]

\* with_transaction, a writer call of the loop whose WAL append fails: the
\* `?` returns the error at once, the operations left and the flush are skipped
ExecuteOperationFails(left) ==
    /\ open /\ tx.pc = "apply" /\ tx.todo # <<>> /\ w.pc = "idle"
    /\ LET op == Head(tx.todo)
       IN WalAppendFails(IF op[1] = "Insert" THEN "AddDocument" ELSE "DeleteDocument",
                         op[2], left)
    /\ tx' = [tx EXCEPT !.writer_calls = @ + 1, !.before = BeforeApply,
                        !.pc = "done", !.result = "Err"]
    /\ UNCHANGED <<segFiles, open, mvccVars, staging, w, merges, poolVars, query_cache,
                   held, lastSearch, libcall, second_open, txn, rec, g, budget>>

\* with_transaction, one writer call of the loop over the operations; an
\* Update is a delete_document followed by an add_document
ExecuteOperation ==
    /\ open /\ tx.pc = "apply" /\ tx.todo # <<>> /\ w.pc = "idle"
    /\ LET op == Head(tx.todo)
       IN /\ IF op[1] = "Insert" THEN DoAdd(op[2], "tx", rec)
             ELSE DoDelete(op[2], "tx", rec)
          /\ tx' = [tx EXCEPT !.writer_calls = @ + 1,
                              !.before = BeforeApply,
                              !.todo = IF op[1] = "Update"
                                       THEN <<(<<"Insert", op[2]>>)>> \o Tail(@)
                                       ELSE Tail(@)]
    /\ UNCHANGED <<open, poolVars, query_cache, held, lastSearch, libcall, second_open, txn, budget>>

\* with_transaction, self.flush() after the operations
TransactionFlush ==
    /\ open /\ tx.pc = "apply" /\ tx.todo = <<>> /\ w.pc = "idle"
    /\ DoFlush("flush", "tx", rec)
    /\ tx' = [tx EXCEPT !.writer_calls = @ + 1, !.pc = "flush"]
    /\ UNCHANGED <<open, poolVars, query_cache, held, lastSearch, libcall, second_open, txn, budget>>

\* with_transaction returns Ok(result)
WithTransactionReturn ==
    /\ open /\ tx.pc = "flush" /\ w.pc = "idle"
    /\ tx' = [tx EXCEPT !.pc = "done", !.result = "Ok"]
    /\ UNCHANGED <<diskVars, open, mvccVars, writerVars, merges, poolVars,
                   query_cache, held, lastSearch, libcall, second_open, txn, rec, g, budget>>

\* ------------------------------------------------------------ second engine
\* Database::open_with_schema called on the directory while the engine has it
\* open: it opens the storage layout, the WAL file (append mode) and a
\* segment writer, and takes no lock
OpenSecond ==
    /\ open /\ ~second_open
    /\ second_open' = TRUE
    /\ UNCHANGED <<diskVars, open, mvccVars, writerVars, merges, poolVars,
                   query_cache, held, lastSearch, libcall, txn, tx, rec, g, budget>>

\* the second Database is dropped
CloseSecond ==
    /\ second_open
    /\ second_open' = FALSE
    /\ UNCHANGED <<diskVars, open, mvccVars, writerVars, merges, poolVars,
                   query_cache, held, lastSearch, libcall, txn, tx, rec, g, budget>>

\* ---------------------------------------------------------------- recovery
\* WAL::find_wal_files: the sequences of the .log files, sorted
RECURSIVE SortedSeq(_)
SortedSeq(S) == IF S = {} THEN <<>> ELSE <<SetMin(S)>> \o SortedSeq(S \ {SetMin(S)})

find_wal_files == SortedSeq(DOMAIN walFiles)

\* the bytes of a WAL file. An entry is serialized field by field (sequence,
\* variant index of the operation, document id), one cell a field, and
\* framed by the 4 little-endian bytes of its length
LenPrefixBytes == 4
MaxEntryLen == 10000000
WalOperations == <<"AddDocument", "UpdateDocument", "DeleteDocument", "Commit">>
CorruptByte == 255

OperationIndex(operation) ==
    CHOOSE i \in 1..Len(WalOperations) : WalOperations[i] = operation

Serialize(entry) == <<entry.sequence, OperationIndex(entry.operation) - 1, entry.doc>>

to_le_bytes(n) ==
    <<n % 256, (n \div 256) % 256, (n \div 65536) % 256, (n \div 16777216) % 256>>

from_le_bytes(b) == b[1] + 256 * b[2] + 65536 * b[3] + 16777216 * b[4]

\* WAL::append: write_all(len), write_all(data)
Frame(entry) == to_le_bytes(Len(Serialize(entry))) \o Serialize(entry)

FileBytes(entries) == Flatten([i \in 1..Len(entries) |-> Frame(entries[i])])

\* bincode::deserialize::<WALEntry>
Deserializable(data) ==
    /\ Len(data) >= 3
    /\ data[2] \in 0..(Len(WalOperations) - 1)

Deserialize(data) ==
    [sequence |-> data[1], operation |-> WalOperations[data[2] + 1], doc |-> data[3]]

\* the loop of WAL::read_entries over the rest of the file
RECURSIVE ReadLoop(_, _)
ReadLoop(bytes, entries) ==
    IF Len(bytes) < LenPrefixBytes
    THEN [ok |-> TRUE, error |-> "none", entries |-> entries]
    ELSE LET len == from_le_bytes(SubSeq(bytes, 1, LenPrefixBytes))
             rest == SubSeq(bytes, LenPrefixBytes + 1, Len(bytes))
         IN IF len > MaxEntryLen
            THEN [ok |-> FALSE, error |-> "InvalidInput", entries |-> <<>>]
            ELSE IF Len(rest) < len
            THEN [ok |-> FALSE, error |-> "Io", entries |-> <<>>]
            ELSE LET data == SubSeq(rest, 1, len)
                 IN ReadLoop(SubSeq(rest, len + 1, Len(rest)),
                             IF Deserializable(data)
                             THEN Append(entries, Deserialize(data)) ELSE entries)

\* WAL::read_entries on a file with these bytes
ReadEntries(bytes) == ReadLoop(bytes, <<>>)

\* WAL::read_entries of file seq
read_entries(seq) == ReadEntries(FileBytes(walFiles[seq])).entries

\* the `for sequence in wal_sequences` loop reaching the next file
RECURSIVE NextWalFile(_)
NextWalFile(r) ==
    IF r.queue # <<>> \/ r.seqs = <<>> THEN r
    ELSE NextWalFile([r EXCEPT !.seqs = Tail(@), !.queue = read_entries(Head(r.seqs)),
                               !.replayed = @ \cup {Head(r.seqs)}])

\* Database::recover up to the first replayed entry
RecoverBegin ==
    /\ open /\ w.pc = "idle" /\ rec.pc \in {"none", "done"}
    /\ budget.recovers > 0
    /\ budget' = [budget EXCEPT !.recovers = @ - 1]
    /\ LET wal_sequences == find_wal_files
       IN rec' = IF wal_sequences = <<>> THEN [NoRecover EXCEPT !.pc = "done"]
                 ELSE NextWalFile([pc |-> "replay", seqs |-> wal_sequences,
                                   queue |-> <<>>, replayed |-> {},
                                   lens |-> [s \in DOMAIN walFiles |-> Len(walFiles[s])]])
    /\ UNCHANGED <<diskVars, open, mvccVars, writerVars, merges, poolVars, clientVars, g>>

\* the replay of one entry, through the same writer calls as the client's
RecoverReplay ==
    /\ open /\ w.pc = "idle" /\ rec.pc = "replay" /\ rec.queue # <<>>
    /\ LET entry == Head(rec.queue)
           recNext == NextWalFile([rec EXCEPT !.queue = Tail(@)])
       IN CASE entry.operation = "AddDocument" -> DoAdd(entry.doc, "recover", recNext)
            [] entry.operation = "UpdateDocument" -> DoAdd(entry.doc, "recover", recNext)
            [] entry.operation = "DeleteDocument" -> DoDelete(entry.doc, "recover", recNext)
            [] entry.operation = "Commit" -> DoFlush("flush", "recover", recNext)
    /\ UNCHANGED <<open, poolVars, clientVars, budget>>

\* the closing self.commit() of Database::recover
RecoverCommit ==
    /\ open /\ w.pc = "idle" /\ rec.pc = "replay" /\ rec.queue = <<>>
    /\ DoFlush("commit", "recover", [rec EXCEPT !.pc = "commit"])
    /\ UNCHANGED <<open, poolVars, clientVars, budget>>

\* ------------------------------------------------------------ process loss
\* the process dies: memory is lost, the files stay
Crash ==
    /\ open /\ budget.crashes > 0
    /\ budget' = [budget EXCEPT !.crashes = @ - 1]
    /\ open' = FALSE
    /\ FreshMemory
    /\ g' = [g EXCEPT !.maxRet = -1, !.recHits = <<>>, !.compact = NoCompact,
                      !.deleteAt = DefaultSnapshot, !.flushAt = DefaultSnapshot,
                      !.flushed = {}, !.covers = {}, !.delSince = {},
                      !.txHeld = {}, !.expected = {},
                      !.failed = NoFailure,
                      !.lostDel = {d \in DocIds : g.lastOp[d] = "del"},
                      !.lostAdded = {d \in DocIds : g.atCommit[d] = "add"},
                      !.lostDeleted = {d \in DocIds : g.atCommit[d] = "del"}]
    /\ UNCHANGED diskVars

\* Database::open_with_schema on the same directory
Reopen ==
    /\ ~open
    /\ open' = TRUE
    /\ FreshMemory
    /\ UNCHANGED <<diskVars, g, budget>>

\* ---------------------------------------------------------- specifications
Writer ==
    \/ \E d \in DocIds : AddDocument(d)
    \/ \E d \in DocIds : DeleteDocument(d)
    \/ Flush
    \/ Commit
    \/ Compact
    \/ WriterFetch
    \/ WriterInsert

Merger ==
    \E m \in 1..MaxMerge : MergeCopy(m) \/ MergeFinish(m) \/ MergeFetch(m) \/ MergeInsert(m)

Searcher == \E q \in Queries, limit \in Limits : Search(q, limit)

Recovery == RecoverBegin \/ RecoverReplay \/ RecoverCommit \/ Crash \/ Reopen

\* the writer, the merge threads and a client taking readers
Init == InitWith([ops |-> MaxOps, searches |-> MaxSearch, crashes |-> 0, recovers |-> 0,
                   slots |-> MergeSlots, script |-> <<>>, txns |-> 0])
Next == Writer \/ Merger \/ GetReader
Spec == Init /\ [][Next]_vars

\* the writer, the merge threads and a client searching through the cache
InitCache ==
    InitWith([ops |-> MaxCacheOps, searches |-> MaxSearch, crashes |-> 0, recovers |-> 0,
                   slots |-> MergeSlots, script |-> <<>>, txns |-> 0])
NextCache == Writer \/ Merger \/ Searcher
SpecCache == InitCache /\ [][NextCache]_vars

\* the writer, the merge threads, process loss, re-open and recover()
InitRecover ==
    InitWith([ops |-> MaxRecOps, searches |-> 0, crashes |-> 1, recovers |-> 2,
                   slots |-> MergeSlots, script |-> <<>>, txns |-> 0])
WriterRecover ==
    \/ \E d \in 1..MaxRecDoc : AddDocument(d)
    \/ \E d \in 1..MaxRecDoc : DeleteDocument(d)
    \/ Flush
    \/ Commit
    \/ Compact
    \/ WriterFetch
    \/ WriterInsert
NextRecover == WriterRecover \/ Merger \/ Recovery
SpecRecover == InitRecover /\ [][NextRecover]_vars

\* the writer and the merge threads alone
InitWriter ==
    InitWith([ops |-> MaxOps, searches |-> 0, crashes |-> 0, recovers |-> 0,
              slots |-> MergeSlots, script |-> <<>>, txns |-> 0])
NextWriter == Writer \/ Merger
SpecWriter == InitWriter /\ [][NextWriter]_vars

\* the writer with a WAL whose appends may fail, and the merge threads
InitWalFails ==
    InitWith([ops |-> MaxOps, searches |-> 0, crashes |-> 0, recovers |-> 0,
              slots |-> MergeSlots, script |-> <<>>, txns |-> 0])

WriterWalFails ==
    \/ \E d \in DocIds, left \in WalAppendOutcomes : AddDocumentFails(d, left)
    \/ \E d \in DocIds, left \in WalAppendOutcomes : DeleteDocumentFails(d, left)

NextWalFails == Writer \/ Merger \/ WriterWalFails
SpecWalFails == InitWalFails /\ [][NextWalFails]_vars

\* a client that makes a fixed sequence of writer calls on document 1, with
\* two background merge threads
CompactRaceScript == <<"flush", "flush", "add", "add", "flush", "delete", "compact">>

Scripted(call) ==
    /\ budget.ops > 0
    /\ budget.script[Len(budget.script) - budget.ops + 1] = call

InitCompactRace ==
    InitWith([ops |-> Len(CompactRaceScript), searches |-> 0, crashes |-> 0,
              recovers |-> 0, slots |-> RaceMergeSlots, script |-> CompactRaceScript, txns |-> 0])

WriterCompactRace ==
    \/ Scripted("flush") /\ Flush
    \/ Scripted("add") /\ AddDocument(1)
    \/ Scripted("delete") /\ DeleteDocument(1)
    \/ Scripted("compact") /\ Compact
    \/ WriterFetch
    \/ WriterInsert

NextCompactRace == WriterCompactRace \/ Merger
SpecCompactRace == InitCompactRace /\ [][NextCompactRace]_vars

\* a client that deletes document 1 until the garbage collection runs, and
\* MVCC transactions
GCOps == max_versions + 1
GCScript == [i \in 1..GCOps |-> "delete"]

InitGC ==
    InitWith([ops |-> GCOps, searches |-> 0, crashes |-> 0, recovers |-> 0,
              slots |-> MergeSlots, script |-> GCScript, txns |-> MaxTxns])

NextGC ==
    \/ Scripted("delete") /\ DeleteDocument(1)
    \/ WriterFetch
    \/ WriterInsert
    \/ BeginTransaction
    \/ BeginTransactionSnapshot
    \/ \E id \in active_txns : CommitTransaction(id)

SpecGC == InitGC /\ [][NextGC]_vars

\* a client that runs one with_transaction call next to its delete calls
InitTx ==
    InitWith([ops |-> MaxTxWrites, searches |-> 0, crashes |-> 0, recovers |-> 0,
              slots |-> MergeSlots, script |-> <<>>, txns |-> MaxTxns])

WithTransaction ==
    \/ \E iso \in IsolationLevels : TransactionBegin(iso)
    \/ \E d \in DocIds : TransactionRead(d)
    \/ \E d \in DocIds : TransactionInsert(d)
    \/ \E d \in DocIds : TransactionUpdate(d)
    \/ \E d \in DocIds : TransactionDelete(d)
    \/ \E by \in {"block", "db"} : TransactionPrepare(by)
    \/ TransactionValidate
    \/ TransactionCommitted
    \/ TransactionRollback
    \/ ExecuteOperation
    \/ TransactionFlush
    \/ WithTransactionReturn

WriterTx ==
    \/ \E d \in DocIds : DeleteDocument(d)
    \/ WriterFetch
    \/ WriterInsert

NextTx == WriterTx \/ Merger \/ WithTransaction
SpecTx == InitTx /\ [][NextTx]_vars

\* WAL::read_entries on a file whose last record is damaged: cut short after
\* `cut` bytes, or whole with data that does not deserialize (cut = 0)
WalEntries(sequence) ==
    {[sequence |-> sequence, operation |-> o, doc |-> d] :
        o \in {"AddDocument", "DeleteDocument"}, d \in DocIds}
    \cup {[sequence |-> sequence, operation |-> "Commit", doc |-> 0]}

WellFormed(n) ==
    {es \in [1..n -> UNION {WalEntries(k) : k \in 0..(n - 1)}] :
        \A i \in 1..n : es[i].sequence = i - 1}

Damaged(entry, cut) ==
    IF cut = 0
    THEN to_le_bytes(Len(Serialize(entry)))
         \o [Serialize(entry) EXCEPT ![2] = CorruptByte]
    ELSE SubSeq(Frame(entry), 1, cut)

InitWalRead ==
    /\ InitEngine(NoBudget)
    /\ \E n \in 0..MaxWalEntries :
         \E good \in WellFormed(n), last \in WalEntries(n) :
           \E cut \in 0..(Len(Frame(last)) - 1) :
             libcall = [fn |-> "read_entries", good |-> good, cut |-> cut,
                        bytes |-> FileBytes(good) \o Damaged(last, cut),
                        done |-> FALSE, result |-> ReadEntries(<<>>)]

ReadEntriesCall ==
    /\ libcall.fn = "read_entries" /\ ~libcall.done
    /\ libcall' = [libcall EXCEPT !.done = TRUE, !.result = ReadEntries(libcall.bytes)]
    /\ UNCHANGED engineVars

NextWalRead == ReadEntriesCall
SpecWalRead == InitWalRead /\ [][NextWalRead]_vars

\* the writer, the merge threads and a second engine opened on the directory
MaxLockOps == 3

InitLock ==
    InitWith([ops |-> MaxLockOps, searches |-> 0, crashes |-> 0, recovers |-> 0,
              slots |-> MergeSlots, script |-> <<>>, txns |-> 0])

NextLock == Writer \/ Merger \/ OpenSecond \/ CloseSecond
SpecLock == InitLock /\ [][NextLock]_vars

\* WAL::append in batch sync mode, on a WAL that WAL::open just returned. The
\* entries are of several serialized sizes; since_sync is the number of
\* bytes written since the last sync_all
SyncBatchBytes == 1048576
EntryDataLens == {96, 1020, 524284, 1048572}

BatchSyncs(position) == position % SyncBatchBytes = 0

InitWalSync ==
    /\ InitEngine(NoBudget)
    /\ libcall = [fn |-> "append", position |-> 0, since_sync |-> 0, len |-> 0,
                  synced |-> FALSE, appends |-> 0]

WalAppendBatch(len) ==
    /\ libcall.fn = "append" /\ libcall.appends < MaxWalAppends
    /\ LET position == libcall.position + LenPrefixBytes + len
           synced == BatchSyncs(position)
       IN libcall' = [fn |-> "append", position |-> position,
                      since_sync |-> IF synced THEN 0
                                     ELSE libcall.since_sync + LenPrefixBytes + len,
                      len |-> len, synced |-> synced,
                      appends |-> libcall.appends + 1]
    /\ UNCHANGED engineVars

NextWalSync == \E len \in EntryDataLens : WalAppendBatch(len)
SpecWalSync == InitWalSync /\ [][NextWalSync]_vars

\* the delta codec on ascending lists and the variable-byte codec on any list
\* of u32 values: 0, the ends of the 1-, 2- and 4-byte ranges, 2^32 - 1
CodecValues ==
    {U32(0), U32(1), U32(127), U32(128), U32(16384), <<4095, 65535>>, <<4096, 0>>,
     <<65535, 65535>>}

Lists(n) == UNION {[1..k -> CodecValues] : k \in 0..n}

Ascending(xs) == \A i \in 1..(Len(xs) - 1) : U32Le(xs[i], xs[i + 1])

InitCodec ==
    /\ InitEngine(NoBudget)
    /\ \E xs \in Lists(MaxCodecLen), codec \in {"delta", "vbyte"} :
         /\ codec = "delta" => Ascending(xs)
         /\ libcall = [fn |-> codec, xs |-> xs, done |-> FALSE, encoded |-> <<>>,
                       result |-> [ok |-> FALSE, nums |-> <<>>]]

DeltaRoundTrip ==
    /\ libcall.fn = "delta" /\ ~libcall.done
    /\ LET encoded == delta_encode_u32_list(libcall.xs)
       IN libcall' = [libcall EXCEPT !.done = TRUE, !.encoded = encoded,
                                     !.result = delta_decode_u32_list(encoded)]
    /\ UNCHANGED engineVars

VByteRoundTrip ==
    /\ libcall.fn = "vbyte" /\ ~libcall.done
    /\ LET encoded == vbyte_encode_u32_list(libcall.xs)
       IN libcall' = [libcall EXCEPT !.done = TRUE, !.encoded = encoded,
                                     !.result = vbyte_decode_u32_list(encoded)]
    /\ UNCHANGED engineVars

NextCodec == DeltaRoundTrip \/ VByteRoundTrip
SpecCodec == InitCodec /\ [][NextCodec]_vars

\* skip lists built from posting lists with strictly increasing doc ids
InitSkip ==
    /\ InitEngine(NoBudget)
    /\ \/ \E S \in SUBSET (1..MaxSkipDoc), d \in 0..(MaxSkipDoc + 1) :
            libcall = [fn |-> "find", a |-> SortedSeq(S), b |-> <<>>, target |-> d,
                       done |-> FALSE, found |-> None, found_doc |-> None,
                       result |-> <<>>]
       \/ \E S, T \in SUBSET (1..MaxIntersectDoc) :
            libcall = [fn |-> "intersect", a |-> SortedSeq(S), b |-> SortedSeq(T),
                       target |-> 0, done |-> FALSE, found |-> None,
                       found_doc |-> None, result |-> <<>>]

SkipListFind ==
    /\ libcall.fn = "find" /\ ~libcall.done
    /\ LET pl == PostingListNew(libcall.a)
       IN libcall' = [libcall EXCEPT !.done = TRUE,
                                     !.found = find(SkipListBuild(pl), libcall.target),
                                     !.found_doc = find_doc(pl, libcall.target)]
    /\ UNCHANGED engineVars

SkipListIntersect ==
    /\ libcall.fn = "intersect" /\ ~libcall.done
    /\ libcall' = [libcall EXCEPT !.done = TRUE,
                      !.result = intersect(SkipListBuild(PostingListNew(libcall.a)),
                                           SkipListBuild(PostingListNew(libcall.b)))]
    /\ UNCHANGED engineVars

NextSkip == SkipListFind \/ SkipListIntersect
SpecSkip == InitSkip /\ [][NextSkip]_vars

\* ------------------------------------------- SimdOps (simd/operation.rs)
\* lists are 1-based here: position i of the code is position i + 1
GALLOP_THRESHOLD == 8

RECURSIVE UnionSortedLoop(_, _, _, _, _)
UnionSortedLoop(a, b, i, j, result) ==
    IF i <= Len(a) /\ j <= Len(b)
    THEN IF a[i] < b[j] THEN UnionSortedLoop(a, b, i + 1, j, Append(result, a[i]))
         ELSE IF a[i] > b[j] THEN UnionSortedLoop(a, b, i, j + 1, Append(result, b[j]))
         ELSE UnionSortedLoop(a, b, i + 1, j + 1, Append(result, a[i]))
    ELSE result \o SubSeq(a, i, Len(a)) \o SubSeq(b, j, Len(b))

union_sorted(a, b) == UnionSortedLoop(a, b, 1, 1, <<>>)

RECURSIVE IntersectSortedLoop(_, _, _, _, _)
IntersectSortedLoop(a, b, i, j, result) ==
    IF ~(i <= Len(a) /\ j <= Len(b)) THEN result
    ELSE IF /\ (i - 1) + GALLOP_THRESHOLD <= Len(a)
            /\ (j - 1) + GALLOP_THRESHOLD <= Len(b)
            /\ a[i + GALLOP_THRESHOLD - 1] < b[j]
         THEN IntersectSortedLoop(a, b, i + GALLOP_THRESHOLD, j, result)
    ELSE IF /\ (i - 1) + GALLOP_THRESHOLD <= Len(a)
            /\ (j - 1) + GALLOP_THRESHOLD <= Len(b)
            /\ b[j + GALLOP_THRESHOLD - 1] < a[i]
         THEN IntersectSortedLoop(a, b, i, j + GALLOP_THRESHOLD, result)
    ELSE IF a[i] < b[j] THEN IntersectSortedLoop(a, b, i + 1, j, result)
    ELSE IF a[i] > b[j] THEN IntersectSortedLoop(a, b, i, j + 1, result)
    ELSE IntersectSortedLoop(a, b, i + 1, j + 1, Append(result, a[i]))

intersect_sorted(a, b) ==
    IF Len(a) = 0 \/ Len(b) = 0 THEN <<>>
    ELSE IntersectSortedLoop(a, b, 1, 1, <<>>)

\* the sorted lists given to SimdOps: Run(s, n, step) is the list of n values
\* s, s + step, s + 2 step, ...; step 0 is a list that repeats one value
SimdSteps == 0..2
Run(s, n, step) == [k \in 1..n |-> s + (k - 1) * step]

InitSimd ==
    /\ InitEngine(NoBudget)
    /\ \E s, t \in 0..MaxSimdStart, n, m \in 0..MaxSimdLen, p, q \in SimdSteps :
          libcall = [fn |-> "simd", a |-> Run(s, n, p), b |-> Run(t, m, q),
                     op |-> "none", done |-> FALSE, result |-> <<>>]

IntersectSorted ==
    /\ libcall.fn = "simd" /\ ~libcall.done
    /\ libcall' = [libcall EXCEPT !.done = TRUE, !.op = "intersect_sorted",
                                  !.result = intersect_sorted(libcall.a, libcall.b)]
    /\ UNCHANGED engineVars

UnionSorted ==
    /\ libcall.fn = "simd" /\ ~libcall.done
    /\ libcall' = [libcall EXCEPT !.done = TRUE, !.op = "union_sorted",
                                  !.result = union_sorted(libcall.a, libcall.b)]
    /\ UNCHANGED engineVars

NextSimd == IntersectSorted \/ UnionSorted
SpecSimd == InitSimd /\ [][NextSimd]_vars

\* ------------------------- posting lists of the index and of segment files
\* A posting is its doc id; every added document contains the term, whose
\* posting list is followed.
\* slice::sort_by_key(|p| p.doc_id): stable, equal keys keep their order
RECURSIVE sort_by_key(_)
InsertByKey(sorted, d) ==
    LET before == SelectSeq(sorted, LAMBDA x : x <= d)
        after == SelectSeq(sorted, LAMBDA x : x > d)
    IN before \o <<d>> \o after
sort_by_key(ids) ==
    IF ids = <<>> THEN <<>>
    ELSE InsertByKey(sort_by_key(SubSeq(ids, 1, Len(ids) - 1)), ids[Len(ids)])

StrictlyIncreasing(ids) == \A k \in 1..(Len(ids) - 1) : ids[k] < ids[k + 1]

InitIndex ==
    /\ InitEngine(NoBudget)
    /\ libcall = [fn |-> "index", postings |-> PostingListNew(<<>>),
                  inverted_index |-> <<>>, written |-> <<>>, finished |-> FALSE,
                  adds |-> 0]

\* InvertedIndex::add_document(doc_id, tokens), the term's posting list
InvertedIndexAddDocument(d) ==
    /\ libcall.fn = "index" /\ libcall.adds < MaxIndexAdds
    /\ LET all_postings == Append(decode_doc_ids(libcall.postings), d)
       IN libcall' = [libcall EXCEPT !.adds = @ + 1,
                         !.postings = PostingListNew(sort_by_key(all_postings))]
    /\ UNCHANGED engineVars

\* SegmentWriter::add_index_entry(term, posting)
AddIndexEntry(d) ==
    /\ libcall.fn = "index" /\ libcall.adds < MaxIndexAdds /\ ~libcall.finished
    /\ libcall' = [libcall EXCEPT !.adds = @ + 1,
                                  !.inverted_index = Append(@, d)]
    /\ UNCHANGED engineVars

\* SegmentWriter::finish, which consumes the writer: the .idx file is written
\* when the buffer is not empty
WriteInvertedIndex ==
    /\ libcall.fn = "index" /\ ~libcall.finished
    /\ libcall' = [libcall EXCEPT !.finished = TRUE,
                      !.written = IF libcall.inverted_index = <<>> THEN <<>>
                                  ELSE sort_by_key(libcall.inverted_index)]
    /\ UNCHANGED engineVars

NextIndex ==
    \/ \E d \in 1..MaxIndexDoc : InvertedIndexAddDocument(d)
    \/ \E d \in 1..MaxIndexDoc : AddIndexEntry(d)
    \/ WriteInvertedIndex
SpecIndex == InitIndex /\ [][NextIndex]_vars

\* --------------------------------------- phrase matching (query/matcher.rs)
\* A document is its token list; the token at index k has position k - 1
\* (tokenizer.rs:31-54). The index holds, for a term of the document, the
\* ascending positions of the term (inverted.rs:85-90).
PhraseTerms == {"a", "b", "c"}
Documents == UNION {[1..n -> PhraseTerms] : n \in 0..MaxTokens}
Phrases == UNION {[1..n -> PhraseTerms] : n \in 1..MaxPhraseLen}

RECURSIVE PositionsFrom(_, _, _)
PositionsFrom(doc, term, k) ==
    IF k > Len(doc) THEN <<>>
    ELSE (IF doc[k] = term THEN <<k - 1>> ELSE <<>>) \o PositionsFrom(doc, term, k + 1)
PositionsOf(doc, term) == PositionsFrom(doc, term, 1)

\* the inner loop of check_adjacent_positions, from term k on
RECURSIVE AdjacentFrom(_, _, _)
AdjacentFrom(term_positions, k, current_pos) ==
    \/ k > Len(term_positions)
    \/ /\ (current_pos + 1) \in Range(term_positions[k])
       /\ AdjacentFrom(term_positions, k + 1, current_pos + 1)

check_adjacent_positions(term_positions) ==
    /\ term_positions # <<>>
    /\ \E s \in 1..Len(term_positions[1]) :
          AdjacentFrom(term_positions, 2, term_positions[1][s])

\* the inner loop of check_proximity_positions, from term k on: the first
\* position of the term's list within the window is taken
RECURSIVE ProximityFrom(_, _, _, _)
ProximityFrom(term_positions, k, current_pos, slop) ==
    IF k > Len(term_positions) THEN TRUE
    ELSE LET min_pos == current_pos + 1
             max_pos == current_pos + slop + 1
             within == SelectSeq(term_positions[k],
                                 LAMBDA p : p >= min_pos /\ p <= max_pos)
         IN IF within = <<>> THEN FALSE
            ELSE ProximityFrom(term_positions, k + 1, within[1], slop)

check_proximity_positions(term_positions, slop) ==
    /\ term_positions # <<>>
    /\ \E s \in 1..Len(term_positions[1]) :
          ProximityFrom(term_positions, 2, term_positions[1][s], slop)

matches_phrase(doc, phrase, slop) ==
    LET term_positions == [k \in 1..Len(phrase) |-> PositionsOf(doc, phrase[k])]
    IN IF \E k \in 1..Len(phrase) : term_positions[k] = <<>> THEN FALSE
       ELSE IF slop = 0 THEN check_adjacent_positions(term_positions)
       ELSE check_proximity_positions(term_positions, slop)

InitPhrase ==
    /\ InitEngine(NoBudget)
    /\ \E doc \in Documents, phrase \in Phrases, slop \in 0..MaxSlop :
          libcall = [fn |-> "matches_phrase", doc |-> doc, phrase |-> phrase,
                     slop |-> slop, done |-> FALSE, result |-> FALSE]

MatchesPhrase ==
    /\ libcall.fn = "matches_phrase" /\ ~libcall.done
    /\ libcall' = [libcall EXCEPT !.done = TRUE,
                      !.result = matches_phrase(libcall.doc, libcall.phrase, libcall.slop)]
    /\ UNCHANGED engineVars

NextPhrase == MatchesPhrase
SpecPhrase == InitPhrase /\ [][NextPhrase]_vars

\* the gaps of a choice of positions, one per phrase term, summed
RECURSIVE GapSum(_, _)
GapSum(choice, k) ==
    IF k >= Len(choice) THEN 0
    ELSE (choice[k + 1] - choice[k] - 1) + GapSum(choice, k + 1)

\* a choice of one position per phrase term, in phrase order and strictly
\* increasing, whose gaps sum to at most slop
InOrderWithinSlop(doc, phrase, slop) ==
    \E choice \in [1..Len(phrase) -> 0..(Len(doc) - 1)] :
        /\ \A k \in 1..Len(phrase) : doc[choice[k] + 1] = phrase[k]
        /\ \A k \in 1..(Len(phrase) - 1) : choice[k] < choice[k + 1]
        /\ GapSum(choice, 1) <= slop

\* ------------------------------------- TopKCollector (search/results.rs)
\* A score is an integer: only the order of the f32 scores is used. A
\* ScoredDocument is [doc, score]; the heap is the set of the documents it
\* holds. ScoredDocument::cmp reverses the order of the scores, so the top of
\* the BinaryHeap (peek, pop) is a document of the lowest score.
Scores == (0 - MaxScore)..MaxScore

HeapTops(heap) == {x \in heap : \A y \in heap : x.score <= y.score}

\* Vec::sort_by(|a, b| b.score.partial_cmp(&a.score)): by score, descending;
\* documents of equal score are listed by doc
RECURSIVE SortByScoreDesc(_)
SortByScoreDesc(docs) ==
    IF docs = {} THEN <<>>
    ELSE LET first == CHOOSE x \in docs :
                          \A y \in docs : \/ x.score > y.score
                                          \/ (x.score = y.score /\ x.doc <= y.doc)
         IN <<first>> \o SortByScoreDesc(docs \ {first})

\* TopKCollector::new(k)
TopKCollectorNew(k) ==
    [fn |-> "collector", k |-> k, heap |-> {}, min_score |-> 0,
     total_collected |-> 0, collected |-> {}, done |-> FALSE,
     max_score |-> 0, hits |-> <<>>]

InitCollector ==
    /\ InitEngine(NoBudget)
    /\ \E k \in 0..MaxK : libcall = TopKCollectorNew(k)

\* TopKCollector::collect(scored_doc); the document's id is its rank among
\* the collected documents
Collect(score) ==
    /\ libcall.fn = "collector" /\ ~libcall.done
    /\ libcall.total_collected < MaxCollect
    /\ LET scored_doc == [doc |-> libcall.total_collected + 1, score |-> score]
           counted == [libcall EXCEPT !.total_collected = @ + 1,
                                      !.collected = @ \cup {scored_doc}]
           pushed == libcall.heap \cup {scored_doc}
       IN IF score > libcall.min_score \/ Cardinality(libcall.heap) < libcall.k
          THEN IF Cardinality(pushed) > libcall.k
               THEN \E top \in HeapTops(pushed) :
                      LET popped == pushed \ {top}
                      IN libcall' = [counted EXCEPT
                            !.heap = popped,
                            !.min_score = IF popped = {} THEN @
                                          ELSE (CHOOSE x \in HeapTops(popped) : TRUE).score]
               ELSE libcall' = [counted EXCEPT !.heap = pushed]
          ELSE libcall' = counted
    /\ UNCHANGED engineVars

\* TopKCollector::max_score
max_score(heap) ==
    IF heap = {} THEN 0 ELSE (CHOOSE x \in HeapTops(heap) : TRUE).score

\* TopKCollector::get_results
get_results(heap) == SortByScoreDesc(heap)

\* the end of QueryExecutor::execute_query: max_score, then get_results
ExecuteQueryReturn ==
    /\ libcall.fn = "collector" /\ ~libcall.done
    /\ libcall' = [libcall EXCEPT !.done = TRUE,
                                  !.max_score = max_score(libcall.heap),
                                  !.hits = get_results(libcall.heap)]
    /\ UNCHANGED engineVars

NextCollector == (\E score \in Scores : Collect(score)) \/ ExecuteQueryReturn
SpecCollector == InitCollector /\ [][NextCollector]_vars

\* the scores of a list of scored documents
ScoresOf(docs) == [i \in 1..Len(docs) |-> docs[i].score]

\* ------------------------------- search_with_limit on a reader of its own
\* The reader's snapshot: each document 1..MaxSearchDoc is in none or one of
\* MaxSearchSegs segments, a segment lists its documents in ascending order,
\* and any set of documents is in the deletion bitmap.
SegmentOf(place, s) == SortedSeq({d \in DOMAIN place : place[d] = s})

InitSearchLimit ==
    /\ InitEngine(NoBudget)
    /\ \E place \in [1..MaxSearchDoc -> 0..MaxSearchSegs],
          deleted \in SUBSET (1..MaxSearchDoc),
          q \in {MatchAll, 1}, limit \in Limits :
          /\ \A s \in 1..MaxSearchSegs :
                SegmentOf(place, s) = <<>> =>
                    \A t \in s..MaxSearchSegs : SegmentOf(place, t) = <<>>
          /\ libcall = [fn |-> "search_with_limit",
                        files |-> [s \in 1..MaxSearchSegs |-> SegmentOf(place, s)],
                        reader |-> [segments |->
                                        SortedSeq({s \in 1..MaxSearchSegs :
                                                      SegmentOf(place, s) # <<>>}),
                                    deleted_docs |-> {BitmapKey(d) : d \in deleted}],
                        q |-> q, limit |-> limit, done |-> FALSE,
                        result |-> [hits |-> <<>>, total_hits |-> 0]]

SearchWithLimit ==
    /\ libcall.fn = "search_with_limit" /\ ~libcall.done
    /\ libcall' = [libcall EXCEPT !.done = TRUE,
                      !.result = search_with_limit(libcall.files, libcall.reader,
                                                   libcall.q, libcall.limit)]
    /\ UNCHANGED engineVars

NextSearchLimit == SearchWithLimit
SpecSearchLimit == InitSearchLimit /\ [][NextSearchLimit]_vars

\* the matching documents of the reader's segments that are not in its
\* deletion bitmap
LiveMatches(files, reader, q) ==
    {d \in UNION {Range(files[reader.segments[i]]) : i \in 1..Len(reader.segments)} :
        Matches(q, d) /\ BitmapKey(d) \notin reader.deleted_docs}

\* ------------------------------- the writer next to its background merges
\* flushes and deletes of a client while merge threads run
InitMerge ==
    InitWith([ops |-> MaxMergeOps, searches |-> 0, crashes |-> 0, recovers |-> 0,
              slots |-> RaceMergeSlots, script |-> <<>>, txns |-> 0])

WriterMerge ==
    \/ \E d \in DocIds : AddDocument(d)
    \/ \E d \in DocIds : DeleteDocument(d)
    \/ Flush
    \/ WriterFetch
    \/ WriterInsert

NextMerge == WriterMerge \/ Merger
SpecMerge == InitMerge /\ [][NextMerge]_vars

\* segment id is in the list, or a segment merged from it is
RECURSIVE Reflected(_, _)
Reflected(id, segments) ==
    \/ id \in Range(segments)
    \/ \E c \in g.covers : c[2] = id /\ Reflected(c[1], segments)

\* no writer call and no merge thread is running
Quiescent ==
    /\ w.pc = "idle"
    /\ \A m \in 1..MaxMerge : merges[m].pc = "free"

\* ----------------------------------- document ids beyond the bitmap's keys
\* a writer, without merge threads, whose documents are 1..MaxDoc and the ids
\* that have the same low bits (the same bitmap key) as one of them
WideDocIds == DocIds \cup {d + BitmapKeySpace : d \in DocIds}

InitKeys ==
    InitWith([ops |-> MaxKeyOps, searches |-> 0, crashes |-> 0, recovers |-> 0,
              slots |-> 0, script |-> <<>>, txns |-> 0])

AddWide(d) == ClientMayWrite /\ DoAdd(d, "wide", rec)
DeleteWide(d) == ClientMayWrite /\ DoDelete(d, "wide", rec)

NextKeys ==
    \/ \E d \in WideDocIds : AddWide(d)
    \/ \E d \in WideDocIds : DeleteWide(d)
    \/ Flush
    \/ WriterFetch
    \/ WriterInsert
SpecKeys == InitKeys /\ [][NextKeys]_vars

\* ------------------------------------- with_transaction on a failing WAL
\* a client that adds document 1 twice, then runs one with_transaction call
\* whose writer calls may fail; no merge thread
TxFailsScript == <<"add", "add">>

InitTxFails ==
    InitWith([ops |-> Len(TxFailsScript), searches |-> 0, crashes |-> 0, recovers |-> 0,
              slots |-> 0, script |-> TxFailsScript, txns |-> MaxTxns])

NextTxFails ==
    \/ Scripted("add") /\ AddDocument(1)
    \/ WriterFetch
    \/ WriterInsert
    \/ WithTransaction
    \/ \E left \in WalAppendOutcomes : ExecuteOperationFails(left)
SpecTxFails == InitTxFails /\ [][NextTxFails]_vars

\* ------------------------------------------------ the reader pool's caches
\* a client that takes more readers than the pool memoizes; no merge thread
InitPool ==
    InitWith([ops |-> MaxPoolOps, searches |-> MaxPoolReads, crashes |-> 0,
              recovers |-> 0, slots |-> 0, script |-> <<>>, txns |-> 0])

NextPool == Writer \/ GetReader
SpecPool == InitPool /\ [][NextPool]_vars

\* -------------------------------------------------------------- properties
\* no create_snapshot call is between its fetch_add and its insert
NoPublicationInFlight ==
    /\ w.pc # "insert"
    /\ \A m \in 1..MaxMerge : merges[m].pc # "insert"

\* what a search of everything returns now
CurrentHits == HitsOf(segFiles, versions, current_version, MatchAll, AllLimit)

\* C1: a reader obtained from get_reader() while the current snapshot is v
\* returns, for every query and limit, only documents stored in v's segments
\* and not in v's deletion bitmap, and what it returns never changes afterwards
C1_ReaderBoundToCurrentSnapshot ==
    held.valid =>
        \A k \in Queries \X Limits :
            LET hits == search_with_limit(segFiles, held.reader, k[1], k[2]).hits
            IN /\ Range(hits) \subseteq VisibleDocs(segFiles, held.at)
               /\ hits = held.hits0[k]

C4_SearchEqualsUncached ==
    lastSearch.valid => lastSearch.hits = lastSearch.uncached

\* C5: once a publication has returned version w, current_snapshot() returns
\* a snapshot of version at least w
C5_CurrentNotOlderThanReturned ==
    g.maxRet >= 0 => current_snapshot.version >= g.maxRet

\* the snapshots whose create_snapshot call is between fetch_add and insert
BeingPublished ==
    (IF w.pc = "insert"
     THEN {NewSnapshot(segFiles, w.version, w.segments, w.deleted_docs)} ELSE {})
    \cup {NewSnapshot(segFiles, merges[m].version, merges[m].new_segments,
                      CreateSnapshotDeletes) :
            m \in {k \in 1..MaxMerge : merges[k].pc = "insert"}}

\* current_snapshot() found no entry and returns Snapshot::default()
ReturnsDefault ==
    (IF current_version > 0 THEN current_version - 1 ELSE 0) \notin DOMAIN versions

\* C6: current_snapshot() returns the latest published snapshot, or the one
\* being published, and never the default snapshot once one was published
C6_CurrentIsLatestPublished ==
    /\ current_snapshot \in {LatestPublished} \cup BeingPublished
    /\ DOMAIN versions # {} => ~ReturnsDefault

\* the threads between their read of the current snapshot and the
\* publication of its successor
Mutators ==
    {t \in {0} : w.pc \in {"fetch", "insert"}}
    \cup {m \in 1..MaxMerge : merges[m].pc \in {"fetch", "insert"}}

\* C7: at most one thread is mutating engine state, and no version is taken
\* between a thread's read of the current snapshot and its own fetch_add
C7_AtMostOneMutator ==
    /\ Cardinality(Mutators) <= 1
    /\ w.pc = "insert" => w.version = w.readAt
    /\ \A m \in 1..MaxMerge : merges[m].pc = "insert" => merges[m].version = merges[m].readAt

\* C8: the snapshot a merge publishes has the segments of the snapshot it
\* read minus the source segments, then the merged segment, and that
\* snapshot's deletion bitmap minus the keys of the documents of the sources
C8_MergePublication ==
    [][\A m \in 1..MaxMerge :
          (merges[m].pc = "insert" /\ merges'[m].pc = "free"
               /\ merges[m].version \in DOMAIN versions') =>
              LET pub == versions'[merges[m].version]
                  cur == merges[m].cur
                  srcDocs == Range(DocsOfSegments(segFiles, merges[m].src))
              IN /\ pub.segments =
                        Append(SelectSeq(cur.segments,
                                         LAMBDA id : id \notin Range(merges[m].src)),
                               merges[m].merged)
                 /\ pub.deleted_docs =
                        cur.deleted_docs \ {BitmapKey(d) : d \in srcDocs}]_vars

C12_CompactLeavesNoDeletes ==
    g.compact.returned =>
        /\ g.compact.deleted_after = {}
        /\ g.compact.segments_after <= g.compact.segments_before
\* C13: the snapshot delete(d) publishes has the segment list of the snapshot
\* that was the latest published at the call, and that snapshot's deletion
\* bitmap plus the entry of d
C13_DeleteFrame ==
    (w.pc = "insert" /\ w.op = "delete") =>
        /\ w.segments = g.deleteAt.segments
        /\ w.deleted_docs = g.deleteAt.deleted_docs \cup {BitmapKey(w.doc)}
\* the versions assigned to create_snapshot calls that have not inserted yet
AssignedVersions ==
    (IF w.pc = "insert" THEN {w.version} ELSE {})
    \cup {merges[m].version : m \in {k \in 1..MaxMerge : merges[k].pc = "insert"}}

\* C14: every version assigned is greater than every version a completed
\* call was assigned, and no two snapshots, published or being published by
\* the writer and the merge threads, carry the same version
C14_VersionsUnique ==
    /\ g.maxRet < current_version
    /\ \A v \in DOMAIN versions : versions[v].version = v /\ v < current_version
    /\ \A v \in AssignedVersions : v \notin DOMAIN versions /\ v < current_version
    /\ Cardinality(AssignedVersions) =
           Cardinality({t \in {0} : w.pc = "insert"})
           + Cardinality({m \in 1..MaxMerge : merges[m].pc = "insert"})
    /\ w.pc = "insert" => w.version >= w.readAt
    /\ \A m \in 1..MaxMerge : merges[m].pc = "insert" => merges[m].version >= merges[m].readAt

\* the writer and a merge thread are publishing at the same time, after
\* earlier publications
C14_Witness ==
    /\ w.pc = "insert"
    /\ \E m \in 1..MaxMerge : merges[m].pc = "insert"
    /\ DOMAIN versions # {}
\* C15: a snapshot the documented rule retains (its version is at least the
\* smallest version held by an active transaction, or no more than 100 are
\* retained, or no more than the floor) is in the versions map
C15_RetainedWhenHeld ==
    g.expected \subseteq DOMAIN versions
\* C16: the reader get_reader() returns was built from a snapshot with the
\* segment list and the deletion bitmap of the snapshot current_snapshot()
\* returned at the call
C16_ReaderOfCurrentSnapshot ==
    held.valid =>
        /\ held.reader.snapshot.segments = held.cur.segments
        /\ held.reader.snapshot.deleted_docs = held.cur.deleted_docs
        /\ held.reader.deleted_docs = held.cur.deleted_docs
\* C17: the commit() of an active Serializable transaction with a non-empty
\* read set fails with InvalidState when a snapshot was published between its
\* begin and the commit() call, and succeeds when none was published up to
\* the return of commit()
C17_SerializableValidation ==
    (/\ tx.commit.returned /\ tx.commit.was_active
     /\ tx.isolation_level = "Serializable" /\ tx.commit.reads # {}) =>
        /\ tx.commit.published_at_call => tx.commit.result = "InvalidState"
        /\ ~tx.commit.published_at_return => tx.commit.result = "Ok"

\* C18: the commit() of an active ReadCommitted or RepeatableRead transaction
\* succeeds, whatever was published after its reads
C18_ValidationOnlySerializable ==
    (/\ tx.commit.returned /\ tx.commit.was_active
     /\ tx.isolation_level \in {"ReadCommitted", "RepeatableRead"}) =>
        tx.commit.result = "Ok"
\* C19: when the user block of with_transaction returned an error, the
\* transaction is Aborted, its operations, read set and write set are empty,
\* and with_transaction has made no writer call for it
C19_ErrorRollsBack ==
    (tx.pc = "done" /\ tx.result = "Err") =>
        /\ tx.state = "Aborted"
        /\ tx.operations = <<>> /\ tx.read_set = {} /\ tx.write_set = {}
        /\ tx.writer_calls = 0 /\ tx.todo = <<>>

\* a block that logged an operation and read a document returned an error
C19_Witness ==
    /\ tx.pc = "done" /\ tx.result = "Err"
    /\ tx.dropped # <<>>
\* C20: when the WAL append of add(doc) or delete(doc_id) failed, the call
\* has left the staged documents and the current snapshot, its deletion
\* bitmap included, as they were, and has started no publication
C20_FailedAppendChangesNothing ==
    g.failed.called =>
        /\ g.failed.staging_after = g.failed.staging_before
        /\ g.failed.snapshot_after = g.failed.snapshot_before
        /\ ~g.failed.publishing

\* an add whose WAL append failed while a document was staged and a snapshot
\* with a deletion was current
C20_Witness ==
    /\ g.failed.called /\ g.failed.op = "add"
    /\ g.failed.staging_before # <<>>
    /\ g.failed.snapshot_before.deleted_docs # {}
\* C21: reading a WAL file whose last record is cut short or does not
\* deserialize succeeds and returns the well-formed entries before it, in order
C21_DamagedTailIsTruncation ==
    (libcall.fn = "read_entries" /\ libcall.done) =>
        /\ libcall.result.ok
        /\ libcall.result.entries = libcall.good
\* C22: the entries of a WAL file carry strictly increasing sequence numbers
\* in the order they were appended, and no two entries of the WAL directory
\* share a sequence number
C22_WalSequencesIncrease ==
    /\ \A s \in DOMAIN walFiles : \A i, j \in 1..Len(walFiles[s]) :
           i < j => walFiles[s][i].sequence < walFiles[s][j].sequence
    /\ \A s, t \in DOMAIN walFiles :
           \A i \in 1..Len(walFiles[s]), j \in 1..Len(walFiles[t]) :
               walFiles[s][i].sequence = walFiles[t][j].sequence => (s = t /\ i = j)
\* C24: while the engine has the directory open, no second engine has it open
C24_OneEnginePerDirectory ==
    ~(open /\ second_open)
\* C23: in batch sync mode, when an append has returned, fewer than 1 MiB
\* have been written since the last fsync
C23_BatchSyncEveryMiB ==
    libcall.fn = "append" => libcall.since_sync < SyncBatchBytes
C25_IntersectIsMerge ==
    (libcall.fn = "intersect" /\ libcall.done) =>
        libcall.result = SortedSeq(Range(libcall.a) \cap Range(libcall.b))

C27_SortedSetOperations ==
    (libcall.fn = "simd" /\ libcall.done) =>
        /\ libcall.op = "intersect_sorted" =>
              libcall.result = SortedSeq(Range(libcall.a) \cap Range(libcall.b))
        /\ libcall.op = "union_sorted" =>
              libcall.result = SortedSeq(Range(libcall.a) \cup Range(libcall.b))

\* C29: the doc ids of the posting list built by the inverted index, and of
\* the posting list written by the segment writer, are strictly increasing
C29_PostingListsStrictlyIncrease ==
    libcall.fn = "index" =>
        /\ StrictlyIncreasing(decode_doc_ids(libcall.postings))
        /\ StrictlyIncreasing(libcall.written)

\* C30: a phrase query with slop > 0 matches a document exactly when one
\* position per phrase term can be chosen, in phrase order and strictly
\* increasing, with the gaps between consecutive terms summing to at most slop
C30_SlopIsSumOfGaps ==
    (libcall.fn = "matches_phrase" /\ libcall.done /\ libcall.slop > 0) =>
        (libcall.result <=> InOrderWithinSlop(libcall.doc, libcall.phrase, libcall.slop))

\* C31: the max score returned with a non-empty result list is the highest
\* score among the hits of the list
C31_MaxScoreIsHighest ==
    (libcall.fn = "collector" /\ libcall.done /\ libcall.hits # <<>>) =>
        /\ libcall.max_score = libcall.hits[1].score
        /\ \A i \in 1..Len(libcall.hits) : libcall.hits[i].score <= libcall.max_score

\* C40: get_results returns the min(k, n) highest-scored of the n collected
\* documents, by score descending
C40_TopKOfCollected ==
    (libcall.fn = "collector" /\ libcall.done) =>
        LET best == SortByScoreDesc(libcall.collected)
            n == IF libcall.k < Len(best) THEN libcall.k ELSE Len(best)
        IN /\ ScoresOf(libcall.hits) = ScoresOf(SubSeq(best, 1, n))
           /\ \A i \in 1..Len(libcall.hits) : libcall.hits[i] \in libcall.collected

\* C32: a search with limit k >= 1 returns min(k, m) hits, m the number of
\* matching documents of the snapshot's segments that are not in its deletion
\* bitmap
C32_LimitHits ==
    (libcall.fn = "search_with_limit" /\ libcall.done) =>
        LET m == Cardinality(LiveMatches(libcall.files, libcall.reader, libcall.q))
        IN Len(libcall.result.hits) = (IF libcall.limit < m THEN libcall.limit ELSE m)

\* C33: the snapshot a flush publishes (flush(), commit(), the flush of an
\* add that reaches the batch size) has the segment list of the snapshot that
\* was the latest published at the call plus the segment just finished, and
\* that snapshot's deletion bitmap
C33_FlushFrame ==
    (w.pc = "insert" /\ w.op \in {"add", "flush", "commit"}) =>
        /\ w.segments = Append(g.flushAt.segments, w.segments[Len(w.segments)])
        /\ w.deleted_docs = g.flushAt.deleted_docs

\* C34: when the writer call and the merges have finished, every segment a
\* flush published is in the current snapshot, itself or merged into one of
\* its segments, never both; and no document deleted since the last flush is
\* returned by a search
C34_MergeKeepsData ==
    Quiescent =>
        LET segments == current_snapshot.segments
        IN /\ \A id \in g.flushed : Reflected(id, segments)
           /\ \A id \in Range(segments) :
                 ~\E c \in g.covers : c[2] = id /\ Reflected(c[1], segments)
           /\ \A d \in g.delSince : d \notin Range(CurrentHits)

\* C35: when a with_transaction call whose last operation is an Update of
\* document d has returned Ok, with nothing else running and d not written
\* since, a search of everything returns d exactly once
C35_UpdateReplaces ==
    (tx.pc = "done" /\ tx.result = "Ok" /\ tx.commit.result = "Ok" /\ Quiescent) =>
        \A d \in DocIds :
            (/\ tx.operations # <<>>
             /\ tx.operations[Len(tx.operations)] = <<"Update", d>>
             /\ g.lastOp[d] = "add") => Count(CurrentHits, d) = 1

\* C36: the snapshot delete(d) publishes hides d only: every other document
\* visible in the latest snapshot published at the call is visible in it
C36_DeleteHidesOnlyItsDocument ==
    (w.pc = "insert" /\ w.op = "delete") =>
        \A d \in VisibleDocs(segFiles, g.deleteAt) \ {w.doc} :
            d \in VisibleDocs(segFiles, [segments |-> w.segments,
                                         deleted_docs |-> w.deleted_docs])

\* C37: when a writer call of with_transaction failed while the committed
\* operations were applied, and the client has made no writer call since the
\* first of them, the searches return what they returned before the first
C37_AppliedAllOrNothing ==
    (/\ tx.pc = "done" /\ tx.result = "Err" /\ tx.state = "Committed"
     /\ tx.before.set /\ tx.before.ops = budget.ops /\ w.pc = "idle") =>
        SearchIds(segFiles, versions, current_version) = tx.before.ids

\* C38: Committed and Aborted are terminal: no call on a transaction whose
\* state is Committed or Aborted changes that state
C38_TerminalStates ==
    [][tx.state \in {"Committed", "Aborted"} => tx'.state = tx.state]_vars

\* C39: after a get_reader call the pool memoizes at most max_readers
\* readers, every reader the call evicted has a lower version than every
\* reader kept, and every per-segment reader belongs to a memoized reader
C39_ReaderPoolBounded ==
    held.valid =>
        /\ Cardinality(DOMAIN reader_cache) <= MaxReaders
        /\ \A e \in held.evicted : \A v \in DOMAIN reader_cache : e < v
        /\ \A k \in DOMAIN segment_reader_cache : k[1] \in DOMAIN reader_cache

\* a get_reader call evicted readers and released their per-segment readers,
\* and per-segment readers of a kept reader remain
C39_Witness ==
    /\ held.valid /\ held.evicted # {} /\ held.released # {}
    /\ DOMAIN segment_reader_cache # {}

====
